---- MODULE Spec2Model ----
(***************************************************************************)
(* Streamed-text classifier and session reducer of the search front end.   *)
(*                                                                         *)
(* The repository holds several generations of the same application; they  *)
(* are told apart here by the version of their localStorage key:           *)
(*   v11  src/App.tsx                       bulk manageTasks, parseOutput  *)
(*   v14  src/unnamed/part_001              v11 plus layout prediction     *)
(*   v7   src/unnamed/part_002 (1-633)      per-task manageTasks,          *)
(*                                          follow-ups, parseOrchestration *)
(*   v4   src/unnamed/part_002 (1072-1609)  single result, phase statuses  *)
(*                                                                         *)
(* Text is a sequence of symbols.  A symbol is one character class ("a", a *)
(* space, a line feed) or a run of characters of the marker vocabulary     *)
(* that the code only ever tests as a whole.                               *)
(***************************************************************************)
EXTENDS Integers, Sequences, FiniteSets, TLC

VARIABLES
    buffer,       \* classifier harness: cumulative text received so far
    parsed,       \* classifier harness: result of the latest classification
    agentStatus,  \* v4: useState agentStatus (phase statuses)
    closure,      \* v4: agentStatus as captured by the handler's render
    state,        \* v11/v7: useState<SearchState>
    selectedId,   \* v11/v7: useState selectedId
    query,        \* v11/v7: useState query (the input box)
    selectedFile, \* v11/v7: useState selectedFile
    agentStatuses,\* v7: useState agentStatuses, per session id
    streams,      \* v11/v7: the searchStream generators started so far
    ui,           \* v4: useState diagnostic, lastRequest, useMaps, modelType
    repertoire    \* what the provider and the user may do in this run

vars == <<buffer, parsed, agentStatus, closure,
          state, selectedId, query, selectedFile, agentStatuses, streams, ui, repertoire>>

classifierVars == <<buffer, parsed, agentStatus, closure>>
sessionVars == <<state, selectedId, query, selectedFile, agentStatuses, streams>>

(***************************************************************************)
(* Bounds of the model.                                                    *)
(***************************************************************************)
MaxLen == 3
MaxStreams == 2
MaxChunks == 2

(***************************************************************************)
(* Strings.                                                                *)
(***************************************************************************)
SP == "SP"
NL == "NL"
Whitespace == {SP, NL}

LOG_MARKER == <<"[SWARM_", "LOG]">>
BOUNDARY_MARKER == <<"[DATA_BOUNDARY]">>
LAYOUT_MARKER == <<"[LAYOUT:">>
PhaseMarkers == {"[ARCHITECT]", "[RESEARCHER]", "[ANALYST]", "[AUDITOR]"}
PhaseMarkersV7 == PhaseMarkers \cup {"[KERNEL]"}

Null == [kind |-> "null"]

\* String.prototype.includes
Includes(s, m) ==
    \E i \in 1..(Len(s) - Len(m) + 1) : SubSeq(s, i, i + Len(m) - 1) = m

\* String.prototype.indexOf, 1-based; 0 when absent
IndexOf(s, m) ==
    IF Includes(s, m)
    THEN CHOOSE i \in 1..(Len(s) - Len(m) + 1) :
            /\ SubSeq(s, i, i + Len(m) - 1) = m
            /\ \A j \in 1..(i - 1) : SubSeq(s, j, j + Len(m) - 1) # m
    ELSE 0

\* String.prototype.replace(marker, ''): the first occurrence only
ReplaceFirst(s, m) ==
    IF Includes(s, m)
    THEN LET i == IndexOf(s, m)
         IN  SubSeq(s, 1, i - 1) \o SubSeq(s, i + Len(m), Len(s))
    ELSE s

\* String.prototype.replace(/.../g, ''): every symbol of ms removed
RECURSIVE RemoveAll(_, _)
RemoveAll(s, ms) ==
    IF s = <<>> THEN <<>>
    ELSE (IF Head(s) \in ms THEN <<>> ELSE <<Head(s)>>) \o RemoveAll(Tail(s), ms)

\* String.prototype.trim
Trim(s) ==
    LET solid == {i \in 1..Len(s) : s[i] \notin Whitespace}
    IN  IF solid = {} THEN <<>>
        ELSE LET lo == CHOOSE i \in solid : \A j \in solid : i <= j
                 hi == CHOOSE i \in solid : \A j \in solid : j <= i
             IN  SubSeq(s, lo, hi)

\* String.prototype.split(sep): the pieces between the occurrences of sep
RECURSIVE Split(_, _)
Split(s, sep) ==
    IF Includes(s, sep)
    THEN LET i == IndexOf(s, sep)
         IN  <<SubSeq(s, 1, i - 1)>> \o Split(SubSeq(s, i + Len(sep), Len(s)), sep)
    ELSE <<s>>

StartsWith(s, p) == Len(p) <= Len(s) /\ SubSeq(s, 1, Len(p)) = p

(***************************************************************************)
(* JSON.parse on the symbols of the model: the one JSON text they can      *)
(* spell is the object  {"sentiment":"positive"} , opened by the symbol    *)
(* "{kv" and closed by "}", with optional white space around and between.  *)
(* Any other text is a SyntaxError.                                        *)
(***************************************************************************)
SyntaxError == [kind |-> "SyntaxError"]
JsonObject == [kind |-> "object", sentiment |-> "positive"]

JSONparse(s) ==
    LET t == Trim(s)
    IN  IF /\ Len(t) >= 2
           /\ t[1] = "{kv"
           /\ t[Len(t)] = "}"
           /\ \A i \in 2..(Len(t) - 1) : t[i] \in Whitespace
        THEN JsonObject
        ELSE SyntaxError

\* String.prototype.match(/\{[\s\S]*\}/): first "{" to last "}", greedy
MatchBraces(s) ==
    LET opens == {i \in 1..Len(s) : s[i] = "{kv"}
        closes == {i \in 1..Len(s) : s[i] = "}"}
    IN  IF opens = {} THEN Null
        ELSE LET lo == CHOOSE i \in opens : \A j \in opens : i <= j
                 after == {i \in closes : i > lo}
             IN  IF after = {} THEN Null
                 ELSE LET hi == CHOOSE i \in after : \A j \in after : j <= i
                      IN  [kind |-> "match", text |-> SubSeq(s, lo, hi)]

(***************************************************************************)
(* v11 parseOutput: one pass over the lines of the cumulative text.        *)
(***************************************************************************)
\* ParseLine with  report = line + "\n"  in place of  report += line + "\n"
ParseLineAssign(acc, line) ==
    IF Includes(line, BOUNDARY_MARKER)
    THEN [acc EXCEPT !.inDataBoundary = TRUE]
    ELSE IF acc.inDataBoundary
    THEN LET v == JSONparse(Trim(line))
         IN  IF v = SyntaxError THEN acc ELSE [acc EXCEPT !.rawJson = v]
    ELSE IF Includes(line, LOG_MARKER)
    THEN [acc EXCEPT !.logs = Append(@, Trim(ReplaceFirst(line, LOG_MARKER)))]
    ELSE [acc EXCEPT !.report = line \o <<NL>>]

\* ParseLine whose catch block gives up what was classified so far
ParseLineCatchResets(acc, line) ==
    IF Includes(line, BOUNDARY_MARKER)
    THEN [acc EXCEPT !.inDataBoundary = TRUE]
    ELSE IF acc.inDataBoundary
    THEN LET v == JSONparse(Trim(line))
         IN  IF v = SyntaxError THEN [acc EXCEPT !.report = <<>>, !.logs = <<>>]
             ELSE [acc EXCEPT !.rawJson = v]
    ELSE IF Includes(line, LOG_MARKER)
    THEN [acc EXCEPT !.logs = Append(@, Trim(ReplaceFirst(line, LOG_MARKER)))]
    ELSE [acc EXCEPT !.report = @ \o line \o <<NL>>]

\* ParseLine whose log entry is what follows the marker on the line
ParseLineAfterMarker(acc, line) ==
    IF Includes(line, BOUNDARY_MARKER)
    THEN [acc EXCEPT !.inDataBoundary = TRUE]
    ELSE IF acc.inDataBoundary
    THEN LET v == JSONparse(Trim(line))
         IN  IF v = SyntaxError THEN acc ELSE [acc EXCEPT !.rawJson = v]
    ELSE IF Includes(line, LOG_MARKER)
    THEN [acc EXCEPT !.logs = Append(@,
            Trim(SubSeq(line, IndexOf(line, LOG_MARKER) + Len(LOG_MARKER), Len(line))))]
    ELSE [acc EXCEPT !.report = @ \o line \o <<NL>>]

ParseLine(acc, line) ==
    IF Includes(line, BOUNDARY_MARKER)
    THEN [acc EXCEPT !.inDataBoundary = TRUE]
    ELSE IF acc.inDataBoundary
    THEN LET v == JSONparse(Trim(line))
         IN  IF v = SyntaxError THEN acc ELSE [acc EXCEPT !.rawJson = v]
    ELSE IF Includes(line, LOG_MARKER)
    THEN [acc EXCEPT !.logs = Append(@, Trim(ReplaceFirst(line, LOG_MARKER)))]
    ELSE [acc EXCEPT !.report = @ \o line \o <<NL>>]

RECURSIVE ParseLines(_, _)
ParseLines(acc, lines) ==
    IF lines = <<>> THEN acc
    ELSE ParseLines(ParseLine(acc, Head(lines)), Tail(lines))

parseOutput(text) ==
    LET acc == ParseLines([logs |-> <<>>, report |-> <<>>, rawJson |-> Null,
                           inDataBoundary |-> FALSE], Split(text, <<NL>>))
    IN  [logs |-> acc.logs, report |-> Trim(acc.report), rawJson |-> acc.rawJson]

(***************************************************************************)
(* v14 parseOutput: as v11, and a line with "[LAYOUT:" is dropped.         *)
(***************************************************************************)
\* ParseLineV14 without the branch that drops a layout line
ParseLineV14KeepLayout(acc, line) ==
    IF Includes(line, BOUNDARY_MARKER)
    THEN [acc EXCEPT !.inDataBoundary = TRUE]
    ELSE IF acc.inDataBoundary
    THEN LET v == JSONparse(Trim(line))
         IN  IF v = SyntaxError THEN acc ELSE [acc EXCEPT !.rawJson = v]
    ELSE IF Includes(line, LOG_MARKER)
    THEN [acc EXCEPT !.logs = Append(@, Trim(ReplaceFirst(line, LOG_MARKER)))]
    ELSE [acc EXCEPT !.report = @ \o line \o <<NL>>]

ParseLineV14(acc, line) ==
    IF Includes(line, BOUNDARY_MARKER)
    THEN [acc EXCEPT !.inDataBoundary = TRUE]
    ELSE IF acc.inDataBoundary
    THEN LET v == JSONparse(Trim(line))
         IN  IF v = SyntaxError THEN acc ELSE [acc EXCEPT !.rawJson = v]
    ELSE IF Includes(line, LOG_MARKER)
    THEN [acc EXCEPT !.logs = Append(@, Trim(ReplaceFirst(line, LOG_MARKER)))]
    ELSE IF Includes(line, LAYOUT_MARKER)
    THEN acc
    ELSE [acc EXCEPT !.report = @ \o line \o <<NL>>]

RECURSIVE ParseLinesV14(_, _)
ParseLinesV14(acc, lines) ==
    IF lines = <<>> THEN acc
    ELSE ParseLinesV14(ParseLineV14(acc, Head(lines)), Tail(lines))

parseOutputV14(text) ==
    LET acc == ParseLinesV14([logs |-> <<>>, report |-> <<>>, rawJson |-> Null,
                              inDataBoundary |-> FALSE], Split(text, <<NL>>))
    IN  [logs |-> acc.logs, report |-> Trim(acc.report), rawJson |-> acc.rawJson]

(***************************************************************************)
(* v4 parseOrchestration.  It reads the agentStatus of the render that     *)
(* created the handler and hands the new statuses to setAgentStatus; the   *)
(* field  status  of the result is the value it passes to setAgentStatus.  *)
(***************************************************************************)
IdleStatus ==
    [architect |-> "idle", researcher |-> "idle", analyst |-> "idle", auditor |-> "idle"]

PhaseStep(st, text, marker, done, next) ==
    IF Includes(text, <<marker>>)
    THEN [st EXCEPT ![done] = "complete", ![next] = "active"]
    ELSE st

PhaseStatus(text, agentStatus0) ==
    LET s1 == IF Includes(text, <<"[ARCHITECT]">>)
              THEN [agentStatus0 EXCEPT !.architect = "active"] ELSE agentStatus0
        s2 == PhaseStep(s1, text, "[RESEARCHER]", "architect", "researcher")
        s3 == PhaseStep(s2, text, "[ANALYST]", "researcher", "analyst")
        s4 == PhaseStep(s3, text, "[AUDITOR]", "analyst", "auditor")
    IN  IF Includes(text, BOUNDARY_MARKER)
        THEN [s4 EXCEPT !.auditor = "complete"] ELSE s4

\* the report and the payload of parseOrchestration (v4 and v7), given the
\* phase markers the variant strips
SplitReport(text, markers) ==
    IF Includes(text, BOUNDARY_MARKER)
    THEN LET parts == Split(text, BOUNDARY_MARKER)
             jsonMatch == MatchBraces(parts[2])
             v == IF jsonMatch = Null THEN Null ELSE JSONparse(jsonMatch.text)
         IN  [report |-> RemoveAll(parts[1], markers),
              api |-> IF v = SyntaxError THEN Null ELSE v]
    ELSE [report |-> RemoveAll(text, markers), api |-> Null]

\* parseOrchestration that parses the payload only once the stored statuses
\* say the auditor has finished
parseOrchestrationGated(text, agentStatus0) ==
    LET r == SplitReport(text, PhaseMarkers)
    IN  [report |-> r.report,
         api |-> IF agentStatus0.auditor = "complete" THEN r.api ELSE Null,
         status |-> PhaseStatus(text, agentStatus0)]

parseOrchestration(text, agentStatus0) ==
    LET r == SplitReport(text, PhaseMarkers)
    IN  [report |-> r.report, api |-> r.api, status |-> PhaseStatus(text, agentStatus0)]

(***************************************************************************)
(* v7 parseOrchestration: pure, the current statuses are a parameter.  A   *)
(* status object is a function from the phase names it holds.              *)
(***************************************************************************)
PhaseName(marker) ==
    CASE marker = "[ARCHITECT]" -> "architect"
      [] marker = "[RESEARCHER]" -> "researcher"
      [] marker = "[KERNEL]" -> "kernel"
      [] marker = "[ANALYST]" -> "analyst"
      [] marker = "[AUDITOR]" -> "auditor"

parseOrchestrationV7(text, currentStatus) ==
    LET found == {PhaseName(m) : m \in {x \in PhaseMarkersV7 : Includes(text, <<x>>)}}
        r == SplitReport(text, PhaseMarkersV7)
    IN  [report |-> r.report, api |-> r.api,
         status |-> [n \in (DOMAIN currentStatus) \cup found |->
                        IF n \in found THEN "active" ELSE currentStatus[n]]]

(***************************************************************************)
(* The classifier harness: text arrives symbol by symbol and every         *)
(* variant's classifier is applied to the cumulative buffer.               *)
(***************************************************************************)
NotParsed == [text |-> <<"-">>]

Classified(text, agentStatus0) ==
    [text |-> text,
     statusIn |-> agentStatus0,
     v11 |-> parseOutput(text),
     v14 |-> parseOutputV14(text),
     v7 |-> parseOrchestrationV7(text, <<>>),
     v4 |-> parseOrchestration(text, agentStatus0)]

\* fullText += chunk.text
Arrive(c) ==
    /\ Len(buffer) < MaxLen
    /\ buffer' = Append(buffer, c)
    /\ UNCHANGED <<parsed, agentStatus, closure>>

\* the for-await body calls the classifier on update.text
Classify ==
    /\ parsed' = Classified(buffer, closure)
    /\ agentStatus' = parsed'.v4.status
    /\ UNCHANGED <<buffer, closure>>

\* v4 handleSearch: a new search starts.  The handler comes from the latest
\* render, so its parseOrchestration reads the statuses stored so far; the
\* provider's text starts again from the empty string.
handleSearchV4 ==
    /\ buffer # <<>>
    /\ parsed.text = buffer
    /\ closure' = agentStatus
    /\ agentStatus' = [IdleStatus EXCEPT !.architect = "active"]
    /\ buffer' = <<>>
    /\ parsed' = NotParsed

ClassifierIdle ==
    /\ buffer = <<>>
    /\ parsed = NotParsed
    /\ agentStatus = IdleStatus
    /\ closure = IdleStatus

\* v4: no diagnostic, no last request, the flash model, deep search on, maps off
InitialUi ==
    [diagnostic |-> Null, lastRequest |-> Null,
     modelType |-> "gemini-3-flash-preview", deepSearch |-> TRUE, useMaps |-> FALSE]

NoSessions ==
    /\ state = [activeNodeIds |-> <<>>, history |-> <<>>, tasks |-> <<>>, error |-> "null"]
    /\ selectedId = "null"
    /\ query = <<>>
    /\ selectedFile = [kind |-> "null"]
    /\ agentStatuses = <<>>
    /\ streams = <<>>
    /\ ui = InitialUi

SymbolsClassify ==
    {"a", NL, "[SWARM_", "LOG]", "[DATA_BOUNDARY]", "{kv", "}", "[RESEARCHER]"}

InitClassify ==
    /\ repertoire = [symbols |-> SymbolsClassify]
    /\ ClassifierIdle
    /\ NoSessions

NextClassify ==
    \/ \E c \in repertoire.symbols : Arrive(c) /\ UNCHANGED <<sessionVars, repertoire, ui>>
    \/ Classify /\ UNCHANGED <<sessionVars, repertoire, ui>>
    \/ handleSearchV4 /\ UNCHANGED <<sessionVars, repertoire, ui>>

SpecClassify == InitClassify /\ [][NextClassify]_vars

\* the classifier on texts that hold the markers of the first two phases
SymbolsPhases == {"a", "[ARCHITECT]", "[RESEARCHER]"}

InitPhases ==
    /\ repertoire = [symbols |-> SymbolsPhases]
    /\ ClassifierIdle
    /\ NoSessions

SpecPhases == InitPhases /\ [][NextClassify]_vars

(***************************************************************************)
(* Values shared by the session variants.                                  *)
(***************************************************************************)
Undefined == [kind |-> "undefined"]
SessionIds == <<"s1", "s2", "s3", "s4">>

\* the chunks the provider may deliver: chunk.text, the groundingChunks of
\* its metadata (when it has any) and chunk.functionCalls
ProviderChunks == repertoire.chunks

Chunk(text, grounding, functionCalls) ==
    [text |-> text, grounding |-> grounding, functionCalls |-> functionCalls]

NoGrounding == [present |-> FALSE]
Grounding(chunks) == [present |-> TRUE, chunks |-> chunks]
WebChunk == [kind |-> "web", uri |-> "u1"]
MapsChunk == [kind |-> "maps", uri |-> "u2"]

NoUpdate == [text |-> <<>>, chunks |-> <<>>, functionCalls |-> <<>>, isComplete |-> FALSE]

TotalChunks == LET RECURSIVE Sum(_)
                   Sum(k) == IF k = 0 THEN 0 ELSE streams[k].n + Sum(k - 1)
               IN  Sum(Len(streams))

(***************************************************************************)
(* searchStream: the generator.  pc is "running" while it awaits the       *)
(* provider, "done" after it yielded the isComplete update and returned,   *)
(* "failed" after it threw.  Between the isComplete yield and the return   *)
(* the generator awaits nothing, so no other event can come in between.    *)
(***************************************************************************)
searchStream(searchId, turns, seen) ==
    [sid |-> searchId, pc |-> "running", fullText |-> <<>>, groundingChunks |-> <<>>,
     n |-> 0, update |-> NoUpdate, turns |-> turns, seen |-> seen]

\* a generator that yields each chunk's own text instead of the text so far
searchStreamYieldDelta(g, chunk) ==
    LET fullText == g.fullText \o chunk.text
        groundingChunks == IF chunk.grounding.present
                           THEN chunk.grounding.chunks ELSE g.groundingChunks
    IN  [g EXCEPT !.fullText = fullText,
                  !.groundingChunks = groundingChunks,
                  !.n = @ + 1,
                  !.update = [text |-> chunk.text, chunks |-> groundingChunks,
                              functionCalls |-> chunk.functionCalls,
                              isComplete |-> FALSE]]

searchStreamYield(g, chunk) ==
    LET fullText == g.fullText \o chunk.text
        groundingChunks == IF chunk.grounding.present
                           THEN chunk.grounding.chunks ELSE g.groundingChunks
    IN  [g EXCEPT !.fullText = fullText,
                  !.groundingChunks = groundingChunks,
                  !.n = @ + 1,
                  !.update = [text |-> fullText, chunks |-> groundingChunks,
                              functionCalls |-> chunk.functionCalls,
                              isComplete |-> FALSE]]

searchStreamFinal(g) ==
    [g EXCEPT !.pc = "done",
              !.update = [text |-> g.fullText, chunks |-> g.groundingChunks,
                          functionCalls |-> <<>>, isComplete |-> TRUE]]

\* Array.prototype.filter(id => id !== searchId)
Without(ids, searchId) == SelectSeq(ids, LAMBDA id : id # searchId)

(***************************************************************************)
(* v11 (src/App.tsx): the setState updaters of handleSearch.               *)
(***************************************************************************)
\* tasks: fc.args.tasks.map(t => ({ ...t, searchId }))
\* manageTasks that adds the provided list to the tasks already there
manageTasksAppend(st, fc, searchId) ==
    IF fc.name = "manageTasks"
    THEN [st EXCEPT !.tasks = @ \o
            [k \in 1..Len(fc.args.tasks) |->
                [id |-> fc.args.tasks[k].id,
                 description |-> fc.args.tasks[k].description,
                 status |-> fc.args.tasks[k].status,
                 searchId |-> searchId]]]
    ELSE st

manageTasks(st, fc, searchId) ==
    IF fc.name = "manageTasks"
    THEN [st EXCEPT !.tasks =
            [k \in 1..Len(fc.args.tasks) |->
                [id |-> fc.args.tasks[k].id,
                 description |-> fc.args.tasks[k].description,
                 status |-> fc.args.tasks[k].status,
                 searchId |-> searchId]]]
    ELSE st

RECURSIVE forEachManageTasks(_, _, _)
forEachManageTasks(st, functionCalls, searchId) ==
    IF functionCalls = <<>> THEN st
    ELSE forEachManageTasks(manageTasks(st, Head(functionCalls), searchId),
                            Tail(functionCalls), searchId)

\* updateHistory that adds each update's report and log lines to those the
\* session already holds
updateHistoryAccumulate(st, update, searchId) ==
    LET p == parseOutput(update.text)
    IN  [st EXCEPT !.history =
            [k \in 1..Len(st.history) |->
                IF st.history[k].id = searchId
                THEN [st.history[k] EXCEPT
                        !.answer = @ \o p.report,
                        !.chunks = update.chunks,
                        !.swarmLogs = @ \o p.logs,
                        !.rawJson = p.rawJson,
                        !.status = IF update.isComplete THEN "completed" ELSE "streaming",
                        !.sentiment = IF p.rawJson = Null THEN "undefined"
                                      ELSE p.rawJson.sentiment]
                ELSE st.history[k]]]

\* updateHistory that keeps the references the session already holds
\* alongside those of the update
updateHistoryMergeChunks(st, update, searchId) ==
    LET p == parseOutput(update.text)
    IN  [st EXCEPT !.history =
            [k \in 1..Len(st.history) |->
                IF st.history[k].id = searchId
                THEN [st.history[k] EXCEPT
                        !.answer = p.report,
                        !.chunks = @ \o update.chunks,
                        !.swarmLogs = p.logs,
                        !.rawJson = p.rawJson,
                        !.status = IF update.isComplete THEN "completed" ELSE "streaming",
                        !.sentiment = IF p.rawJson = Null THEN "undefined"
                                      ELSE p.rawJson.sentiment]
                ELSE st.history[k]]]

\* updateHistory without the test  h.id === searchId
updateHistoryAll(st, update, searchId) ==
    LET p == parseOutput(update.text)
    IN  [st EXCEPT !.history =
            [k \in 1..Len(st.history) |->
                [st.history[k] EXCEPT
                    !.answer = p.report,
                    !.chunks = update.chunks,
                    !.swarmLogs = p.logs,
                    !.rawJson = p.rawJson,
                    !.status = IF update.isComplete THEN "completed" ELSE "streaming",
                    !.sentiment = IF p.rawJson = Null THEN "undefined"
                                  ELSE p.rawJson.sentiment]]]

\* updateHistory that takes a parsed payload for the end of the stream
updateHistoryCompleteOnPayload(st, update, searchId) ==
    LET p == parseOutput(update.text)
    IN  [st EXCEPT !.history =
            [k \in 1..Len(st.history) |->
                IF st.history[k].id = searchId
                THEN [st.history[k] EXCEPT
                        !.answer = p.report,
                        !.chunks = update.chunks,
                        !.swarmLogs = p.logs,
                        !.rawJson = p.rawJson,
                        !.status = IF update.isComplete \/ p.rawJson # Null
                                   THEN "completed" ELSE "streaming",
                        !.sentiment = IF p.rawJson = Null THEN "undefined"
                                      ELSE p.rawJson.sentiment]
                ELSE st.history[k]]]

updateHistory(st, update, searchId) ==
    LET p == parseOutput(update.text)
    IN  [st EXCEPT !.history =
            [k \in 1..Len(st.history) |->
                IF st.history[k].id = searchId
                THEN [st.history[k] EXCEPT
                        !.answer = p.report,
                        !.chunks = update.chunks,
                        !.swarmLogs = p.logs,
                        !.rawJson = p.rawJson,
                        !.status = IF update.isComplete THEN "completed" ELSE "streaming",
                        !.sentiment = IF p.rawJson = Null THEN "undefined"
                                      ELSE p.rawJson.sentiment]
                ELSE st.history[k]]]

\* a loop body that applies an update only while its session is selected
onUpdateIfSelected(st, update, searchId) ==
    IF selectedId = searchId
    THEN updateHistory(forEachManageTasks(st, update.functionCalls, searchId), update, searchId)
    ELSE st

\* the body of the for-await loop
onUpdate(st, update, searchId) ==
    updateHistory(forEachManageTasks(st, update.functionCalls, searchId), update, searchId)

\* a submission that puts the new entry in front of the history twice
onSubmitTwice(st, initial) ==
    [st EXCEPT !.activeNodeIds = Append(@, initial.id),
               !.history = <<initial, initial>> \o @]

onSubmit(st, initial) ==
    [st EXCEPT !.activeNodeIds = Append(@, initial.id),
               !.history = <<initial>> \o @]

\* a catch block that also drops the tasks
onCatchReset(st, message) == [st EXCEPT !.error = message, !.tasks = <<>>]

onCatch(st, message) == [st EXCEPT !.error = message]

onFinally(st, searchId) == [st EXCEPT !.activeNodeIds = Without(@, searchId)]

initialResult(searchId, activeQuery, fileToUse) ==
    [id |-> searchId,
     query |-> IF activeQuery = <<>> THEN <<"Visual Discovery">> ELSE activeQuery,
     answer |-> <<>>, chunks |-> <<>>, swarmLogs |-> <<>>,
     rawJson |-> Undefined, sentiment |-> "undefined", status |-> "streaming",
     fileContext |-> IF fileToUse = Null THEN Undefined ELSE fileToUse]

(***************************************************************************)
(* v11: the actions.                                                       *)
(***************************************************************************)
\* onChange of the input box
setQuery(q) ==
    /\ q # query
    /\ query' = q
    /\ UNCHANGED <<state, selectedId, selectedFile, agentStatuses, streams>>

\* the file picker
setSelectedFile(f) ==
    /\ f # selectedFile
    /\ selectedFile' = f
    /\ UNCHANGED <<state, selectedId, query, agentStatuses, streams>>

\* "New Mission" (null) or an entry of the history list
setSelectedId(id) ==
    /\ id # selectedId
    /\ id = "null" \/ \E k \in 1..Len(state.history) : state.history[k].id = id
    /\ selectedId' = id
    /\ UNCHANGED <<state, query, selectedFile, agentStatuses, streams>>

\* handleSearch without the early return for a blank query
handleSearchUnguarded ==
    LET activeQuery == Trim(query)
        searchId == SessionIds[Len(streams) + 1]
    IN  /\ Len(streams) < MaxStreams
        /\ query' = <<>>
        /\ selectedFile' = Null
        /\ state' = onSubmit(state, initialResult(searchId, activeQuery, selectedFile))
        /\ selectedId' = searchId
        /\ streams' = Append(streams, searchStream(searchId, <<>>, <<>>))
        /\ UNCHANGED agentStatuses

handleSearch ==
    LET activeQuery == Trim(query)
        searchId == SessionIds[Len(streams) + 1]
    IN  /\ ~(activeQuery = <<>> /\ selectedFile = Null)
        /\ Len(streams) < MaxStreams
        /\ query' = <<>>
        /\ selectedFile' = Null
        /\ state' = onSubmit(state, initialResult(searchId, activeQuery, selectedFile))
        /\ selectedId' = searchId
        /\ streams' = Append(streams, searchStream(searchId, <<>>, <<>>))
        /\ UNCHANGED agentStatuses

\* the provider delivers a chunk, searchStream yields, the loop body runs
Update(i, chunk) ==
    /\ streams[i].pc = "running"
    /\ TotalChunks < MaxChunks
    /\ LET g == searchStreamYield(streams[i], chunk)
       IN  /\ streams' = [streams EXCEPT ![i] = g]
           /\ state' = onUpdate(state, g.update, g.sid)
    /\ UNCHANGED <<selectedId, query, selectedFile, agentStatuses>>

\* the provider's stream ends: searchStream yields the isComplete update,
\* the loop body runs, searchStream returns, the loop ends, finally
Final(i) ==
    /\ streams[i].pc = "running"
    /\ LET g == searchStreamFinal(streams[i])
       IN  /\ streams' = [streams EXCEPT ![i] = g]
           /\ state' = onFinally(onUpdate(state, g.update, g.sid), g.sid)
    /\ UNCHANGED <<selectedId, query, selectedFile, agentStatuses>>

\* the provider throws, searchStream rethrows, catch and finally
Fail(i, message) ==
    /\ streams[i].pc = "running"
    /\ streams' = [streams EXCEPT ![i].pc = "failed"]
    /\ state' = onFinally(onCatch(state, message), streams[i].sid)
    /\ UNCHANGED <<selectedId, query, selectedFile, agentStatuses>>

BulkL1 == <<[id |-> "t1", description |-> "d1", status |-> "pending"]>>
BulkL2 == <<[id |-> "t2", description |-> "d2", status |-> "in_progress"],
            [id |-> "t1", description |-> "d1", status |-> "completed"]>>
ManageTasksCall(tasks) == [name |-> "manageTasks", args |-> [tasks |-> tasks]]

RepertoireV11 ==
    [symbols |-> {},
     chunks |-> {Chunk(<<"[SWARM_", "LOG]", "a", NL, "a", NL>>, Grounding(<<WebChunk>>),
                       <<ManageTasksCall(BulkL1)>>),
                 Chunk(<<"a", NL>>, Grounding(<<MapsChunk>>), <<>>),
                 Chunk(<<"[DATA_BOUNDARY]", NL, "{kv", "}">>, NoGrounding,
                       <<ManageTasksCall(BulkL1), ManageTasksCall(BulkL2)>>)},
     queries |-> {<<>>, <<SP, "a">>},
     files |-> {Null},
     errors |-> {"429"}]

InitV11 ==
    /\ repertoire = RepertoireV11
    /\ ClassifierIdle
    /\ NoSessions

NextV11 ==
    \/ \E q \in repertoire.queries : setQuery(q) /\ UNCHANGED <<classifierVars, repertoire, ui>>
    \/ handleSearch /\ UNCHANGED <<classifierVars, repertoire, ui>>
    \/ \E i \in 1..Len(streams) : \E chunk \in ProviderChunks :
          Update(i, chunk) /\ UNCHANGED <<classifierVars, repertoire, ui>>
    \/ \E i \in 1..Len(streams) : Final(i) /\ UNCHANGED <<classifierVars, repertoire, ui>>
    \/ \E i \in 1..Len(streams) : \E m \in repertoire.errors :
          Fail(i, m) /\ UNCHANGED <<classifierVars, repertoire, ui>>

SpecV11 == InitV11 /\ [][NextV11]_vars

\* v11 with the history list and the "New Mission" button
NextSelect ==
    \/ NextV11
    \/ \E id \in {"null"} \cup {SessionIds[k] : k \in 1..MaxStreams} :
          setSelectedId(id) /\ UNCHANGED <<classifierVars, repertoire, ui>>

SpecSelect == InitV11 /\ [][NextSelect]_vars

\* v11 with an input box that holds nothing, white space only, or a word
\* between white space
RepertoireBlank ==
    [symbols |-> {},
     chunks |-> {Chunk(<<"a", NL>>, Grounding(<<WebChunk>>), <<ManageTasksCall(BulkL1)>>)},
     queries |-> {<<>>, <<SP>>, <<SP, NL>>, <<SP, "a", SP>>},
     files |-> {Null},
     errors |-> {"429"}]

InitBlank ==
    /\ repertoire = RepertoireBlank
    /\ ClassifierIdle
    /\ NoSessions

SpecBlank == InitBlank /\ [][NextV11]_vars

\* the suggested queries of the empty screen
Suggestions == {<<"Latest AI market trends">>}

\* a suggestion's onClick: setQuery(s); handleSearch().  handleSearch is the
\* one of the render that drew the button and reads that render's query, the
\* text of the input box before the click; when it goes on, its setQuery('')
\* comes after setQuery(s)
onSuggestion(s) ==
    LET activeQuery == Trim(query)
        searchId == SessionIds[Len(streams) + 1]
    IN  /\ selectedId = "null"
        /\ IF activeQuery = <<>> /\ selectedFile = Null
           THEN /\ query' = s
                /\ UNCHANGED <<state, selectedId, selectedFile, streams>>
           ELSE /\ Len(streams) < MaxStreams
                /\ query' = <<>>
                /\ selectedFile' = Null
                /\ state' = onSubmit(state, initialResult(searchId, activeQuery, selectedFile))
                /\ selectedId' = searchId
                /\ streams' = Append(streams, searchStream(searchId, <<>>, <<>>))
        /\ UNCHANGED agentStatuses

\* v11 with the empty screen
NextSuggest ==
    \/ NextV11
    \/ setSelectedId("null") /\ UNCHANGED <<classifierVars, repertoire, ui>>
    \/ \E s \in Suggestions : onSuggestion(s) /\ UNCHANGED <<classifierVars, repertoire, ui>>

SpecSuggest == InitV11 /\ [][NextSuggest]_vars

\* v11 with a provider that delivers one log line whole or in two fragments,
\* the first of which ends inside the marker
RepertoireFragments ==
    [symbols |-> {},
     chunks |-> {Chunk(<<"a", NL, "[SWARM_">>, NoGrounding, <<>>),
                 Chunk(<<"LOG]", SP, "a", NL, "a">>, NoGrounding, <<>>),
                 Chunk(<<"a", NL, "[SWARM_", "LOG]", SP, "a", NL, "a">>, NoGrounding, <<>>)},
     queries |-> {<<>>, <<SP, "a">>},
     files |-> {Null},
     errors |-> {"429"}]

InitFragments ==
    /\ repertoire = RepertoireFragments
    /\ ClassifierIdle
    /\ NoSessions

SpecFragments == InitFragments /\ [][NextV11]_vars

\* v11 with a provider whose payload text stays incomplete, is completed,
\* or is followed by text that is no JSON
RepertoireMalformed ==
    [symbols |-> {},
     chunks |-> {Chunk(<<"[SWARM_", "LOG]", SP, "a", NL, "a", NL,
                         "[DATA_BOUNDARY]", NL, "{kv">>, Grounding(<<WebChunk>>), <<>>),
                 Chunk(<<"}", NL, "a">>, NoGrounding, <<>>),
                 Chunk(<<"}">>, NoGrounding, <<>>)},
     queries |-> {<<>>, <<SP, "a">>},
     files |-> {Null},
     errors |-> {"429"}]

InitMalformed ==
    /\ repertoire = RepertoireMalformed
    /\ ClassifierIdle
    /\ NoSessions

SpecMalformed == InitMalformed /\ [][NextV11]_vars

(***************************************************************************)
(* v7 (src/unnamed/part_002, lines 1-633): per-task mutations, follow-ups. *)
(***************************************************************************)
NoArg == "undefined"
Falsy(x) == x \in {NoArg, ""}

TaskCall(action, taskId, description, status) ==
    [name |-> "manageTasks",
     args |-> [action |-> action, taskId |-> taskId,
               description |-> description, status |-> status]]

\* handleTaskAction whose update and delete look for the task id in the
\* tasks of every session
handleTaskActionAnySession(st, call, searchId) ==
    LET a == call.args
        Same(t) == t.id = a.taskId /\ t.searchId = searchId
        SameId(t) == t.id = a.taskId
    IN  [st EXCEPT !.tasks =
            IF a.action = "create"
            THEN IF \E k \in 1..Len(st.tasks) : Same(st.tasks[k])
                 THEN @
                 ELSE Append(@, [id |-> a.taskId,
                                 description |-> IF Falsy(a.description) THEN ""
                                                 ELSE a.description,
                                 status |-> IF Falsy(a.status) THEN "pending" ELSE a.status,
                                 searchId |-> searchId])
            ELSE IF a.action = "update"
            THEN [k \in 1..Len(st.tasks) |->
                    IF SameId(st.tasks[k])
                    THEN [st.tasks[k] EXCEPT
                            !.status = IF Falsy(a.status) THEN @ ELSE a.status,
                            !.description = IF Falsy(a.description) THEN @ ELSE a.description]
                    ELSE st.tasks[k]]
            ELSE IF a.action = "delete"
            THEN SelectSeq(st.tasks, LAMBDA t : ~SameId(t))
            ELSE st.tasks]

\* handleTaskAction whose create pushes without looking for the task
handleTaskActionPush(st, call, searchId) ==
    LET a == call.args
        Same(t) == t.id = a.taskId /\ t.searchId = searchId
    IN  [st EXCEPT !.tasks =
            IF a.action = "create"
            THEN Append(@, [id |-> a.taskId,
                            description |-> IF Falsy(a.description) THEN "" ELSE a.description,
                            status |-> IF Falsy(a.status) THEN "pending" ELSE a.status,
                            searchId |-> searchId])
            ELSE IF a.action = "update"
            THEN [k \in 1..Len(st.tasks) |->
                    IF Same(st.tasks[k])
                    THEN [st.tasks[k] EXCEPT
                            !.status = IF Falsy(a.status) THEN @ ELSE a.status,
                            !.description = IF Falsy(a.description) THEN @ ELSE a.description]
                    ELSE st.tasks[k]]
            ELSE IF a.action = "delete"
            THEN SelectSeq(st.tasks, LAMBDA t : ~Same(t))
            ELSE st.tasks]

\* handleTaskAction whose update creates the task it does not find
handleTaskActionUpsert(st, call, searchId) ==
    LET a == call.args
        Same(t) == t.id = a.taskId /\ t.searchId = searchId
        found == \E k \in 1..Len(st.tasks) : Same(st.tasks[k])
        made == [id |-> a.taskId,
                 description |-> IF Falsy(a.description) THEN "" ELSE a.description,
                 status |-> IF Falsy(a.status) THEN "pending" ELSE a.status,
                 searchId |-> searchId]
    IN  [st EXCEPT !.tasks =
            IF a.action = "create"
            THEN IF found THEN @ ELSE Append(@, made)
            ELSE IF a.action = "update"
            THEN IF found
                 THEN [k \in 1..Len(st.tasks) |->
                         IF Same(st.tasks[k])
                         THEN [st.tasks[k] EXCEPT
                                 !.status = IF Falsy(a.status) THEN @ ELSE a.status,
                                 !.description = IF Falsy(a.description) THEN @
                                                 ELSE a.description]
                         ELSE st.tasks[k]]
                 ELSE Append(@, made)
            ELSE IF a.action = "delete"
            THEN SelectSeq(st.tasks, LAMBDA t : ~Same(t))
            ELSE st.tasks]

handleTaskAction(st, call, searchId) ==
    LET action == call.args.action
        taskId == call.args.taskId
        description == call.args.description
        status == call.args.status
        Same(t) == t.id = taskId /\ t.searchId = searchId
        updatedTasks == st.tasks
    IN  [st EXCEPT !.tasks =
            IF action = "create"
            THEN IF \E k \in 1..Len(updatedTasks) : Same(updatedTasks[k])
                 THEN updatedTasks
                 ELSE Append(updatedTasks,
                             [id |-> taskId,
                              description |-> IF Falsy(description) THEN "" ELSE description,
                              status |-> IF Falsy(status) THEN "pending" ELSE status,
                              searchId |-> searchId])
            ELSE IF action = "update"
            THEN [k \in 1..Len(updatedTasks) |->
                    IF Same(updatedTasks[k])
                    THEN [updatedTasks[k] EXCEPT
                            !.status = IF Falsy(status) THEN @ ELSE status,
                            !.description = IF Falsy(description) THEN @ ELSE description]
                    ELSE updatedTasks[k]]
            ELSE IF action = "delete"
            THEN SelectSeq(updatedTasks, LAMBDA t : ~Same(t))
            ELSE updatedTasks]

\* a loop that applies the calls of an update last to first
RECURSIVE forEachTaskActionReversed(_, _, _)
forEachTaskActionReversed(st, functionCalls, searchId) ==
    IF functionCalls = <<>> THEN st
    ELSE handleTaskAction(forEachTaskActionReversed(st, Tail(functionCalls), searchId),
                          Head(functionCalls), searchId)

RECURSIVE forEachTaskAction(_, _, _)
forEachTaskAction(st, functionCalls, searchId) ==
    IF functionCalls = <<>> THEN st
    ELSE forEachTaskAction(handleTaskAction(st, Head(functionCalls), searchId),
                           Tail(functionCalls), searchId)

\* updateHistoryV7 that puts a session back to 'initializing' on an update
updateHistoryV7Restart(st, update, searchId, parsedUpdate) ==
    [st EXCEPT !.history =
        [k \in 1..Len(st.history) |->
            IF st.history[k].id = searchId
            THEN [st.history[k] EXCEPT
                    !.answer = parsedUpdate.report,
                    !.rawJson = parsedUpdate.api,
                    !.chunks = update.chunks,
                    !.status = IF update.isComplete THEN "completed" ELSE "initializing",
                    !.sentiment = IF parsedUpdate.api = Null THEN @
                                  ELSE parsedUpdate.api.sentiment]
            ELSE st.history[k]]]

updateHistoryV7(st, update, searchId, parsedUpdate) ==
    [st EXCEPT !.history =
        [k \in 1..Len(st.history) |->
            IF st.history[k].id = searchId
            THEN [st.history[k] EXCEPT
                    !.answer = parsedUpdate.report,
                    !.rawJson = parsedUpdate.api,
                    !.chunks = update.chunks,
                    !.status = IF update.isComplete THEN "completed" ELSE "streaming",
                    !.sentiment = IF parsedUpdate.api = Null THEN @
                                  ELSE parsedUpdate.api.sentiment]
            ELSE st.history[k]]]

\* the body of the for-await loop, on the SearchState
onUpdateV7(st, g) ==
    updateHistoryV7(forEachTaskAction(st, g.update.functionCalls, g.sid),
                    g.update, g.sid, parseOrchestrationV7(g.update.text, g.seen))

\* setAgentStatuses(prev => ({ ...prev, [searchId]: status }))
setAgentStatusesV7(prev, searchId, status) ==
    [id \in (DOMAIN prev) \cup {searchId} |-> IF id = searchId THEN status ELSE prev[id]]

IdleStatusV7 ==
    [architect |-> "idle", researcher |-> "idle", kernel |-> "idle",
     analyst |-> "idle", auditor |-> "idle"]

Find(history, searchId) ==
    {k \in 1..Len(history) : history[k].id = searchId}

initialResultV7(searchId, currentTurnQuery, fileToUse) ==
    [id |-> searchId, query |-> currentTurnQuery, answer |-> <<>>, messages |-> <<>>,
     chunks |-> <<>>, rawJson |-> Undefined, sentiment |-> "undefined",
     status |-> "initializing",
     fileContext |-> IF fileToUse = Null THEN Undefined ELSE fileToUse]

onSubmitV7(st, initial) ==
    [st EXCEPT !.activeNodeIds = Append(@, initial.id),
               !.history = <<initial>> \o @,
               !.error = "null"]

\* a follow-up submission that clears the answer of the session it reopens
onFollowUpV7Clear(st, searchId, currentTurnQuery) ==
    [st EXCEPT !.activeNodeIds = Append(@, searchId),
               !.history =
                  [k \in 1..Len(st.history) |->
                      IF st.history[k].id = searchId
                      THEN [st.history[k] EXCEPT
                              !.status = "streaming",
                              !.answer = <<>>,
                              !.messages = Append(@, [role |-> "user",
                                                      content |-> currentTurnQuery])]
                      ELSE st.history[k]]]

onFollowUpV7(st, searchId, currentTurnQuery) ==
    [st EXCEPT !.activeNodeIds = Append(@, searchId),
               !.history =
                  [k \in 1..Len(st.history) |->
                      IF st.history[k].id = searchId
                      THEN [st.history[k] EXCEPT
                              !.status = "streaming",
                              !.messages = Append(@, [role |-> "user",
                                                      content |-> currentTurnQuery])]
                      ELSE st.history[k]]]

onEndV7(st, searchId) == [st EXCEPT !.activeNodeIds = Without(@, searchId)]

onCatchV7(st, searchId, message) ==
    [st EXCEPT !.activeNodeIds = Without(@, searchId), !.error = message]

handleSearchV7 ==
    LET isFollowUp == selectedId # "null"
        activeQuery == Trim(query)
        fileToUse == selectedFile
        searchId == IF isFollowUp THEN selectedId
                    ELSE SessionIds[Len(state.history) + 1]
        existing == Find(state.history, searchId)
        historyToUse ==
            IF isFollowUp /\ existing # {}
            THEN LET h == state.history[CHOOSE k \in existing : TRUE]
                 IN  Append(h.messages, [role |-> "model", content |-> h.answer])
            ELSE <<>>
        currentTurnQuery ==
            IF activeQuery # <<>> THEN activeQuery
            ELSE IF fileToUse # Null THEN <<"Analyzing ", fileToUse.name>>
            ELSE <<"Follow-up Query">>
        seen == IF searchId \in DOMAIN agentStatuses THEN agentStatuses[searchId] ELSE <<>>
    IN  /\ ~(activeQuery = <<>> /\ selectedFile = Null)
        /\ Len(streams) < MaxStreams
        /\ selectedFile' = Null
        /\ query' = <<>>
        /\ IF isFollowUp
           THEN /\ state' = onFollowUpV7(state, searchId, currentTurnQuery)
                /\ selectedId' = selectedId
           ELSE /\ state' = onSubmitV7(state, initialResultV7(searchId, currentTurnQuery, fileToUse))
                /\ selectedId' = searchId
        /\ agentStatuses' = setAgentStatusesV7(agentStatuses, searchId, IdleStatusV7)
        /\ streams' = Append(streams, searchStream(searchId, historyToUse, seen))

UpdateV7(i, chunk) ==
    /\ streams[i].pc = "running"
    /\ TotalChunks < MaxChunks
    /\ LET g == searchStreamYield(streams[i], chunk)
       IN  /\ streams' = [streams EXCEPT ![i] = g]
           /\ state' = onUpdateV7(state, g)
           /\ agentStatuses' = setAgentStatusesV7(agentStatuses, g.sid,
                                  parseOrchestrationV7(g.update.text, g.seen).status)
    /\ UNCHANGED <<selectedId, query, selectedFile>>

\* the isComplete update, then the statement after the loop
FinalV7(i) ==
    /\ streams[i].pc = "running"
    /\ LET g == searchStreamFinal(streams[i])
       IN  /\ streams' = [streams EXCEPT ![i] = g]
           /\ state' = onEndV7(onUpdateV7(state, g), g.sid)
           /\ agentStatuses' = setAgentStatusesV7(agentStatuses, g.sid,
                                  parseOrchestrationV7(g.update.text, g.seen).status)
    /\ UNCHANGED <<selectedId, query, selectedFile>>

FailV7(i, message) ==
    /\ streams[i].pc = "running"
    /\ streams' = [streams EXCEPT ![i].pc = "failed"]
    /\ state' = onCatchV7(state, streams[i].sid, message)
    /\ UNCHANGED <<selectedId, query, selectedFile, agentStatuses>>

RepertoireV7 ==
    [symbols |-> {},
     chunks |-> {Chunk(<<"[RESEARCHER]", "a">>, Grounding(<<WebChunk>>),
                       <<TaskCall("create", "t1", "d1", NoArg)>>),
                 Chunk(<<"[DATA_BOUNDARY]", "{kv", "}">>, NoGrounding, <<>>)},
     queries |-> {<<>>, <<SP, "a">>},
     files |-> {Null},
     errors |-> {"429"}]

TaskCalls ==
    {<<TaskCall("create", "t1", "d1", NoArg), TaskCall("create", "t1", "d2", "in_progress")>>,
     <<TaskCall("update", "t1", "d2", "completed")>>,
     <<TaskCall("delete", "t1", NoArg, NoArg)>>}

RepertoireTasks ==
    [symbols |-> {},
     chunks |-> {Chunk(<<"a">>, NoGrounding, calls) : calls \in TaskCalls},
     queries |-> {<<>>, <<"a">>},
     files |-> {Null},
     errors |-> {"429"}]

\* updates that carry two mutations of one task each
OrderedCalls ==
    {<<TaskCall("create", "t1", "d1", NoArg), TaskCall("delete", "t1", NoArg, NoArg)>>,
     <<TaskCall("delete", "t1", NoArg, NoArg), TaskCall("create", "t1", "d2", "in_progress")>>,
     <<TaskCall("create", "t1", NoArg, NoArg), TaskCall("update", "t1", NoArg, "completed")>>}

\* an update that creates two tasks and updates one, and one that updates,
\* deletes and creates
FrameCalls ==
    {<<TaskCall("create", "t1", "d1", NoArg), TaskCall("create", "t2", NoArg, "in_progress"),
       TaskCall("update", "t1", NoArg, "completed")>>,
     <<TaskCall("update", "t2", "d3", NoArg), TaskCall("delete", "t1", NoArg, NoArg),
       TaskCall("create", "t1", NoArg, NoArg)>>}

RepertoireFrame ==
    [symbols |-> {},
     chunks |-> {Chunk(<<"a">>, NoGrounding, calls) : calls \in FrameCalls},
     queries |-> {<<"a">>},
     files |-> {Null},
     errors |-> {"429"}]

RepertoireOrder ==
    [symbols |-> {},
     chunks |-> {Chunk(<<"a">>, NoGrounding, calls) : calls \in OrderedCalls},
     queries |-> {<<>>, <<"a">>},
     files |-> {Null},
     errors |-> {"429"}]

InitV7 ==
    /\ repertoire = RepertoireV7
    /\ ClassifierIdle
    /\ NoSessions

InitTasks ==
    /\ repertoire = RepertoireTasks
    /\ ClassifierIdle
    /\ NoSessions

NextV7 ==
    \/ \E q \in repertoire.queries : setQuery(q) /\ UNCHANGED <<classifierVars, repertoire, ui>>
    \/ \E id \in {"null"} \cup {SessionIds[k] : k \in 1..MaxStreams} :
          setSelectedId(id) /\ UNCHANGED <<classifierVars, repertoire, ui>>
    \/ handleSearchV7 /\ UNCHANGED <<classifierVars, repertoire, ui>>
    \/ \E i \in 1..Len(streams) : \E chunk \in ProviderChunks :
          UpdateV7(i, chunk) /\ UNCHANGED <<classifierVars, repertoire, ui>>
    \/ \E i \in 1..Len(streams) : FinalV7(i) /\ UNCHANGED <<classifierVars, repertoire, ui>>
    \/ \E i \in 1..Len(streams) : \E m \in repertoire.errors :
          FailV7(i, m) /\ UNCHANGED <<classifierVars, repertoire, ui>>

SpecV7 == InitV7 /\ [][NextV7]_vars
SpecTasks == InitTasks /\ [][NextV7]_vars

\* v7 whose history list is not used: "New Mission" is the only selection
NextFrame ==
    \/ \E q \in repertoire.queries : setQuery(q) /\ UNCHANGED <<classifierVars, repertoire, ui>>
    \/ setSelectedId("null") /\ UNCHANGED <<classifierVars, repertoire, ui>>
    \/ handleSearchV7 /\ UNCHANGED <<classifierVars, repertoire, ui>>
    \/ \E i \in 1..Len(streams) : \E chunk \in ProviderChunks :
          UpdateV7(i, chunk) /\ UNCHANGED <<classifierVars, repertoire, ui>>
    \/ \E i \in 1..Len(streams) : FinalV7(i) /\ UNCHANGED <<classifierVars, repertoire, ui>>
    \/ \E i \in 1..Len(streams) : \E m \in repertoire.errors :
          FailV7(i, m) /\ UNCHANGED <<classifierVars, repertoire, ui>>

InitOrder ==
    /\ repertoire = RepertoireOrder
    /\ ClassifierIdle
    /\ NoSessions

SpecOrder == InitOrder /\ [][NextFrame]_vars

InitFrame ==
    /\ repertoire = RepertoireFrame
    /\ ClassifierIdle
    /\ NoSessions

SpecFrame == InitFrame /\ [][NextFrame]_vars

\* TaskBoard: the status button of a task of the selected session
onToggleStatus(id) ==
    /\ selectedId # "null"
    /\ \E k \in 1..Len(state.tasks) :
          state.tasks[k].searchId = selectedId /\ state.tasks[k].id = id
    /\ state' = [state EXCEPT !.tasks =
          [k \in 1..Len(state.tasks) |->
              IF state.tasks[k].id = id
              THEN [state.tasks[k] EXCEPT
                      !.status = IF @ = "completed" THEN "pending" ELSE "completed"]
              ELSE state.tasks[k]]]
    /\ UNCHANGED <<selectedId, query, selectedFile, agentStatuses, streams>>

\* v7 with the task board
NextBoard ==
    \/ NextFrame
    \/ \E id \in {"t1", "t2"} :
          onToggleStatus(id) /\ UNCHANGED <<classifierVars, repertoire, ui>>

SpecBoard == InitFrame /\ [][NextBoard]_vars

(***************************************************************************)
(* v14 (src/unnamed/part_001): a session carries suggestedLayout.  The     *)
(* updates come from searchStream of src/unnamed/part_004, which yields    *)
(* text, chunks, functionCalls and isComplete.                             *)
(***************************************************************************)
LayoutMode == {"AUTO", "REPORT_ONLY", "SPATIAL_SPLIT", "DATA_FOCUS"}

\* the words of the isSpatial pattern the queries of the model can spell
SpatialWords == {"where"}

\* obj[field] of an object that may lack the property
Field(obj, field) == IF field \in DOMAIN obj THEN obj[field] ELSE "undefined"

predictedLayout(activeQuery) ==
    IF \E k \in 1..Len(activeQuery) : activeQuery[k] \in SpatialWords
    THEN "SPATIAL_SPLIT" ELSE "AUTO"

initialResultV14(searchId, activeQuery, fileToUse) ==
    [id |-> searchId,
     query |-> IF activeQuery = <<>> THEN <<"Visual Synthesis">> ELSE activeQuery,
     answer |-> <<>>, chunks |-> <<>>, swarmLogs |-> <<>>,
     rawJson |-> Undefined, sentiment |-> "undefined", status |-> "streaming",
     fileContext |-> IF fileToUse = Null THEN Undefined ELSE fileToUse,
     suggestedLayout |-> predictedLayout(activeQuery)]

onSubmitV14(st, initial) ==
    [st EXCEPT !.activeNodeIds = Append(@, initial.id),
               !.history = <<initial>> \o @,
               !.tasks = <<>>]

\* the layout merge of the history updater
mergeLayout(h, update) ==
    IF Field(update, "suggestedLayout") # "AUTO"
    THEN Field(update, "suggestedLayout") ELSE h.suggestedLayout

updateHistoryV14(st, update, searchId) ==
    LET p == parseOutputV14(update.text)
    IN  [st EXCEPT !.history =
            [k \in 1..Len(st.history) |->
                IF st.history[k].id = searchId
                THEN [st.history[k] EXCEPT
                        !.answer = p.report,
                        !.chunks = update.chunks,
                        !.swarmLogs = p.logs,
                        !.rawJson = p.rawJson,
                        !.status = IF update.isComplete THEN "completed" ELSE "streaming",
                        !.sentiment = IF p.rawJson = Null THEN "undefined"
                                      ELSE p.rawJson.sentiment,
                        !.suggestedLayout = mergeLayout(st.history[k], update)]
                ELSE st.history[k]]]

onUpdateV14(st, update, searchId) ==
    updateHistoryV14(forEachManageTasks(st, update.functionCalls, searchId), update, searchId)

\* state.history.find(h => h.id === selectedId), Null for undefined
currentResult ==
    IF \E k \in 1..Len(state.history) : state.history[k].id = selectedId
    THEN state.history[CHOOSE k \in 1..Len(state.history) :
                          /\ state.history[k].id = selectedId
                          /\ \A j \in 1..(k - 1) : state.history[j].id # selectedId]
    ELSE Null

\* getLayout that returns whatever the session suggests, AUTO included
getLayoutSuggested(result) ==
    IF result = Null THEN "AUTO"
    ELSE IF Field(result, "suggestedLayout") # "undefined"
         THEN result.suggestedLayout
    ELSE IF \E k \in 1..Len(result.chunks) : result.chunks[k].kind = "maps"
         THEN "SPATIAL_SPLIT"
    ELSE "REPORT_ONLY"

\* an absent suggestedLayout is falsy
getLayout(result) ==
    IF result = Null THEN "AUTO"
    ELSE IF Field(result, "suggestedLayout") # "undefined" /\ result.suggestedLayout # "AUTO"
         THEN result.suggestedLayout
    ELSE IF \E k \in 1..Len(result.chunks) : result.chunks[k].kind = "maps"
         THEN "SPATIAL_SPLIT"
    ELSE "REPORT_ONLY"

activeLayout == getLayout(currentResult)

handleSearchV14 ==
    LET activeQuery == Trim(query)
        searchId == SessionIds[Len(streams) + 1]
    IN  /\ ~(activeQuery = <<>> /\ selectedFile = Null)
        /\ Len(streams) < MaxStreams
        /\ query' = <<>>
        /\ selectedFile' = Null
        /\ state' = onSubmitV14(state, initialResultV14(searchId, activeQuery, selectedFile))
        /\ selectedId' = searchId
        /\ streams' = Append(streams, searchStream(searchId, <<>>, <<>>))
        /\ UNCHANGED agentStatuses

UpdateV14(i, chunk) ==
    /\ streams[i].pc = "running"
    /\ TotalChunks < MaxChunks
    /\ LET g == searchStreamYield(streams[i], chunk)
       IN  /\ streams' = [streams EXCEPT ![i] = g]
           /\ state' = onUpdateV14(state, g.update, g.sid)
    /\ UNCHANGED <<selectedId, query, selectedFile, agentStatuses>>

FinalV14(i) ==
    /\ streams[i].pc = "running"
    /\ LET g == searchStreamFinal(streams[i])
       IN  /\ streams' = [streams EXCEPT ![i] = g]
           /\ state' = onFinally(onUpdateV14(state, g.update, g.sid), g.sid)
    /\ UNCHANGED <<selectedId, query, selectedFile, agentStatuses>>

RepertoireV14 ==
    [symbols |-> {},
     chunks |-> {Chunk(<<"[SWARM_", "LOG]", SP, "a", NL, "[LAYOUT:", SP, "SPATIAL_SPLIT]", NL>>,
                       Grounding(<<MapsChunk>>), <<>>),
                 Chunk(<<"b", NL, "[DATA_BOUNDARY]", NL, "{kv", "}">>, NoGrounding,
                       <<ManageTasksCall(BulkL1)>>),
                 Chunk(<<NL, "a", NL>>, Grounding(<<WebChunk>>), <<>>)},
     queries |-> {<<>>, <<"where", SP>>},
     files |-> {Null},
     errors |-> {"500"}]

InitV14 ==
    /\ repertoire = RepertoireV14
    /\ ClassifierIdle
    /\ NoSessions

NextV14 ==
    \/ \E q \in repertoire.queries : setQuery(q) /\ UNCHANGED <<classifierVars, repertoire, ui>>
    \/ handleSearchV14 /\ UNCHANGED <<classifierVars, repertoire, ui>>
    \/ \E i \in 1..Len(streams) : \E chunk \in ProviderChunks :
          UpdateV14(i, chunk) /\ UNCHANGED <<classifierVars, repertoire, ui>>
    \/ \E i \in 1..Len(streams) : FinalV14(i) /\ UNCHANGED <<classifierVars, repertoire, ui>>
    \/ \E i \in 1..Len(streams) : \E m \in repertoire.errors :
          Fail(i, m) /\ UNCHANGED <<classifierVars, repertoire, ui>>

SpecV14 == InitV14 /\ [][NextV14]_vars

\* getLayout on the sessions its parameter type admits: suggestedLayout is
\* absent or any LayoutMode, chunks any list of web and map references
ReferenceLists ==
    UNION {[1..n -> {WebChunk, MapsChunk}] : n \in 0..(MaxLen - 1)}

SessionsOf(searchId) ==
    {[initialResultV14(searchId, <<"a">>, Null) EXCEPT
          !.status = "completed", !.chunks = refs, !.suggestedLayout = layout] :
       refs \in ReferenceLists, layout \in LayoutMode \cup {"undefined"}}

InitLayout ==
    /\ repertoire = RepertoireV14
    /\ ClassifierIdle
    /\ \E h2 \in SessionsOf("s2") : \E h1 \in SessionsOf("s1") :
          state = [activeNodeIds |-> <<>>, history |-> <<h2, h1>>,
                   tasks |-> <<>>, error |-> "null"]
    /\ selectedId = "null"
    /\ query = <<>>
    /\ selectedFile = Null
    /\ agentStatuses = <<>>
    /\ streams = <<>>
    /\ ui = InitialUi

\* the history buttons and New Synthesis of the sidebar
NextLayout ==
    \E id \in {"null", "s1", "s2"} :
        setSelectedId(id) /\ UNCHANGED <<classifierVars, repertoire, ui>>

SpecLayout == InitLayout /\ [][NextLayout]_vars

(***************************************************************************)
(* The classifier on texts that hold every marker of the report path.      *)
(***************************************************************************)
SymbolsReport == {"a", SP, NL, "[SWARM_", "LOG]", "[DATA_BOUNDARY]", "[LAYOUT:"}

InitReport ==
    /\ repertoire = [symbols |-> SymbolsReport]
    /\ ClassifierIdle
    /\ NoSessions

SpecReport == InitReport /\ [][NextClassify]_vars

(***************************************************************************)
(* Claims about the classifiers.                                           *)
(***************************************************************************)
\* a step in which the for-await body classifies the buffer
ClassifyStep == buffer' = buffer /\ closure' = closure /\ parsed'.text = buffer

SameOutputs(p, q) ==
    /\ p.v11 = q.v11
    /\ p.v14 = q.v14
    /\ p.v7.report = q.v7.report /\ p.v7.api = q.v7.api
    /\ p.v4.report = q.v4.report /\ p.v4.api = q.v4.api

StatusesAtHand == {IdleStatus, agentStatus, closure, parsed.statusIn}

ReportMarkers == {LOG_MARKER, BOUNDARY_MARKER, LAYOUT_MARKER}

MarkerFree(t) == \A m \in ReportMarkers : ~Includes(t, m)

\* an occurrence of a marker starts in s1 and ends in t
Straddles(s1, t) ==
    \E m \in ReportMarkers : \E i \in 1..(Len(m) - 1) :
        /\ i <= Len(s1) /\ Len(m) - i <= Len(t)
        /\ SubSeq(s1, Len(s1) - i + 1, Len(s1)) = SubSeq(m, 1, i)
        /\ SubSeq(t, 1, Len(m) - i) = SubSeq(m, i + 1, Len(m))

Prefix(k) == SubSeq(buffer, 1, k)
Suffix(k) == SubSeq(buffer, k + 1, Len(buffer))

\* C10 as stated: whenever the text after a prefix of the buffer holds no
\* marker, the report of the buffer starts with the report of the prefix.
C10_ReportGrows ==
    \A k \in 0..Len(buffer) :
        MarkerFree(Suffix(k)) =>
            /\ StartsWith(parseOutput(buffer).report, parseOutput(Prefix(k)).report)
            /\ StartsWith(parseOutputV14(buffer).report, parseOutputV14(Prefix(k)).report)

\* C10: the same when, in addition, the appended text completes no marker
\* whose first characters end the prefix.
C10_ReportGrowsUnlessMarkerCompleted ==
    \A k \in 0..Len(buffer) :
        (MarkerFree(Suffix(k)) /\ ~Straddles(Prefix(k), Suffix(k))) =>
            /\ StartsWith(parseOutput(buffer).report, parseOutput(Prefix(k)).report)
            /\ StartsWith(parseOutputV14(buffer).report, parseOutputV14(Prefix(k)).report)

\* the classified prefix ends in whitespace after some report text, and the
\* text that arrived since extends the report
C10_Witness ==
    /\ parsed # NotParsed
    /\ 0 < Len(parsed.text) /\ Len(parsed.text) < Len(buffer)
    /\ parsed.text = Prefix(Len(parsed.text))
    /\ parsed.text[Len(parsed.text)] \in Whitespace
    /\ parsed.v11.report # <<>>
    /\ MarkerFree(Suffix(Len(parsed.text)))
    /\ parseOutput(buffer).report # parsed.v11.report
    /\ StartsWith(parseOutput(buffer).report, parsed.v11.report)

(***************************************************************************)
(* Claims about sessions and tasks.                                        *)
(***************************************************************************)
Owned(tasks, sid) == SelectSeq(tasks, LAMBDA t : t.searchId = sid)

Entry(st, sid) == st.history[CHOOSE k \in Find(st.history, sid) : TRUE]

Streamed == {streams[i].sid : i \in 1..Len(streams)}

\* the step submits a search on sid or moves a stream of sid
TiedTo(sid) ==
    \E i \in 1..Len(streams') :
        /\ streams'[i].sid = sid
        /\ i > Len(streams) \/ streams'[i] # streams[i]

\* stream i yields an update in this step
Yields(i) == streams'[i].n = streams[i].n + 1

Fails(i) == streams[i].pc = "running" /\ streams'[i].pc = "failed"

HasCompleted(sid) ==
    \E i \in 1..Len(streams) : streams[i].sid = sid /\ streams[i].pc = "done"

Consumed(sid) ==
    \E i \in 1..Len(streams) : streams[i].sid = sid /\ streams[i].pc = "running"

Shown(h) == [answer |-> h.answer, chunks |-> h.chunks, rawJson |-> h.rawJson]

Frozen(sid) ==
    /\ Shown(Entry(state', sid)) = Shown(Entry(state, sid))
    /\ Owned(state'.tasks, sid) = Owned(state.tasks, sid)

StatusMoves(allowed) ==
    /\ \A k \in 1..Len(state.history) :
          LET h == state.history[k]
              after == Entry(state', h.id).status
          IN  after = h.status \/ <<h.status, after>> \in allowed
    /\ \A k \in 1..Len(state'.history) :
          Find(state.history, state'.history[k].id) = {}
              => state'.history[k].status = "initializing"

C3_ErrorFailsSession ==
    \A i \in 1..Len(streams) :
        streams[i].pc = "failed" =>
            /\ Entry(state, streams[i].sid).status = "failed"
            /\ state.error # "null"

ShownV11(h) ==
    [answer |-> h.answer, chunks |-> h.chunks, swarmLogs |-> h.swarmLogs,
     rawJson |-> h.rawJson]

\* what the last update of the stream left in its session
LeftBy(g) ==
    IF g.n = 0
    THEN [answer |-> <<>>, chunks |-> <<>>, swarmLogs |-> <<>>, rawJson |-> Undefined]
    ELSE LET p == parseOutput(g.update.text)
         IN  [answer |-> p.report, chunks |-> g.update.chunks, swarmLogs |-> p.logs,
              rawJson |-> p.rawJson]

\* C4: the step in which a stream fails changes no session and no task,
\* and the session then shows the report, log lines, references and
\* payload of the stream's last update.
C4_ErrorKeepsPartialResult ==
    [][\A i \in 1..Len(streams) :
          Fails(i) =>
              /\ state'.history = state.history
              /\ state'.tasks = state.tasks
              /\ ShownV11(Entry(state', streams[i].sid)) = LeftBy(streams[i])]_vars

\* a stream failed after two updates; its report, log line and tasks remain
C4_Witness ==
    \E i \in 1..Len(streams) :
        /\ streams[i].pc = "failed" /\ streams[i].n = 2
        /\ state.error = "429"
        /\ LET h == Entry(state, streams[i].sid)
           IN  /\ h.answer # <<>> /\ h.swarmLogs # <<>>
               /\ Owned(state.tasks, h.id) # <<>>

NoDuplicateTask(tasks) ==
    \A j, k \in 1..Len(tasks) :
        (tasks[j].id = tasks[k].id /\ tasks[j].searchId = tasks[k].searchId) => j = k

\* C5: no two tasks share the same (id, searchId).
C5_CreateIdempotent == NoDuplicateTask(state.tasks)

\* an update carried create t1 twice; the session owns t1 once, as first created
C5_Witness ==
    \E i \in 1..Len(streams) :
        /\ streams[i].update.functionCalls =
              <<TaskCall("create", "t1", "d1", NoArg),
                TaskCall("create", "t1", "d2", "in_progress")>>
        /\ Owned(state.tasks, streams[i].sid) =
              <<[id |-> "t1", description |-> "d1", status |-> "pending",
                 searchId |-> streams[i].sid]>>

\* C6: an update that carries one update or delete call for a task the
\* session does not own changes no task and records no error.
C6_MissingTargetNoOp ==
    [][\A i \in 1..Len(streams) :
          LET calls == streams'[i].update.functionCalls
          IN  (/\ Yields(i)
               /\ Len(calls) = 1
               /\ calls[1].args.action \in {"update", "delete"}
               /\ ~\E k \in 1..Len(state.tasks) :
                      /\ state.tasks[k].id = calls[1].args.taskId
                      /\ state.tasks[k].searchId = streams[i].sid)
              => (state'.tasks = state.tasks /\ state'.error = state.error)]_vars

\* a session that owns no task was asked to update t1; the t1 of the other
\* session is as it was created
C6_Witness ==
    \E i \in 1..Len(streams) :
        /\ streams[i].n = 1
        /\ streams[i].update.functionCalls = <<TaskCall("update", "t1", "d2", "completed")>>
        /\ Owned(state.tasks, streams[i].sid) = <<>>
        /\ Len(state.tasks) = 1
        /\ state.tasks[1].description = "d1" /\ state.tasks[1].status = "pending"
        /\ state.error = "null"

BulkCalls(calls) == SelectSeq(calls, LAMBDA fc : fc.name = "manageTasks")

Stamp(list, sid) ==
    [k \in 1..Len(list) |->
        [id |-> list[k].id, description |-> list[k].description,
         status |-> list[k].status, searchId |-> sid]]

\* C7: after an update that carries manageTasks calls the session owns
\* exactly the list of the last call, in its order, stamped with its id.
C7_BulkReplace ==
    [][\A i \in 1..Len(streams) :
          LET bulk == BulkCalls(streams'[i].update.functionCalls)
          IN  (Yields(i) /\ bulk # <<>>)
                  => Owned(state'.tasks, streams[i].sid)
                       = Stamp(bulk[Len(bulk)].args.tasks, streams[i].sid)]_vars

\* an update carried two lists; the session owns the second one only
C7_Witness ==
    \E i \in 1..Len(streams) :
        /\ streams[i].n > 0
        /\ streams[i].update.functionCalls =
              <<ManageTasksCall(BulkL1), ManageTasksCall(BulkL2)>>
        /\ Owned(state.tasks, streams[i].sid) = Stamp(BulkL2, streams[i].sid)

\* C8 as stated: a step changes the tasks owned by a session only if it is
\* a step of that session.
C8_TasksPartitioned ==
    [][\A sid \in Streamed :
          Owned(state'.tasks, sid) # Owned(state.tasks, sid) => TiedTo(sid)]_vars

(***************************************************************************)
(* Layout (v14).                                                           *)
(***************************************************************************)
NonAutoLayouts == LayoutMode \ {"AUTO"}

\* the text spells a layout directive naming one of the layouts
HasDirective(text, layouts) ==
    \E l \in layouts : Includes(text, LAYOUT_MARKER \o <<SP, l \o "]">>)

\* the text the step appends to the cumulative text of stream i
Appended(i) ==
    SubSeq(streams'[i].fullText, Len(streams[i].fullText) + 1, Len(streams'[i].fullText))

\* C11: once the cumulative text of a stream holds a non-AUTO layout
\* directive, every later update of the stream whose added text holds no
\* layout marker reports a non-AUTO layout (not AUTO, not a missing layout).
C11_LayoutSticky ==
    [][\A i \in 1..Len(streams) :
          (/\ Yields(i)
           /\ HasDirective(streams[i].fullText, NonAutoLayouts)
           /\ ~Includes(Appended(i), LAYOUT_MARKER))
          => Field(streams'[i].update, "suggestedLayout") \in NonAutoLayouts]_vars

\* C20: a session's layout is always one of the four layouts and, once
\* non-AUTO (the layout predicted at submission included), stays non-AUTO.
C20_LayoutNeverRegresses ==
    [][/\ \A k \in 1..Len(state'.history) :
             state'.history[k].suggestedLayout \in LayoutMode
       /\ \A k \in 1..Len(state.history) :
             state.history[k].suggestedLayout \in NonAutoLayouts
             => Entry(state', state.history[k].id).suggestedLayout \in NonAutoLayouts]_vars

(***************************************************************************)
(* Payload.                                                                *)
(***************************************************************************)
\* everything after the first [DATA_BOUNDARY] of the text
AfterBoundary(text) ==
    SubSeq(text, IndexOf(text, BOUNDARY_MARKER) + Len(BOUNDARY_MARKER), Len(text))

\* the payload the claim describes: the JSON value of the text after the
\* marker when that text is complete valid JSON, absent (null) otherwise
PayloadOf(text) ==
    IF Includes(text, BOUNDARY_MARKER) /\ JSONparse(AfterBoundary(text)) # SyntaxError
    THEN JSONparse(AfterBoundary(text))
    ELSE Null

\* C12: the payload of a classification is absent when the text has no
\* boundary marker or the text after it is not complete valid JSON, and is the
\* JSON value of everything after the marker otherwise, wherever the JSON
\* starts and however many lines it spans.
C12_PayloadIsJsonAfterBoundary ==
    parsed # NotParsed =>
        /\ parsed.v11.rawJson = PayloadOf(parsed.text)
        /\ parsed.v7.api = PayloadOf(parsed.text)

\* a payload that is set: neither null nor undefined
IsSet(rawJson) == rawJson \notin {Null, Undefined}

\* C13: once a session's payload is set, no later step unsets or nulls it.
C13_PayloadSticky ==
    [][\A k \in 1..Len(state.history) :
          IsSet(state.history[k].rawJson)
          => IsSet(Entry(state', state.history[k].id).rawJson)]_vars

(***************************************************************************)
(* Report (v14).                                                           *)
(***************************************************************************)
\* the lines of the text before its first line with [DATA_BOUNDARY]
PreBoundaryLines(text) ==
    LET lines == Split(text, <<NL>>)
        marked == {k \in 1..Len(lines) : Includes(lines[k], BOUNDARY_MARKER)}
    IN  IF marked = {} THEN lines
        ELSE SubSeq(lines, 1, (CHOOSE k \in marked : \A j \in marked : k <= j) - 1)

RECURSIVE JoinLines(_)
JoinLines(lines) ==
    IF lines = <<>> THEN <<>> ELSE Head(lines) \o <<NL>> \o JoinLines(Tail(lines))

\* every pre-boundary line without log or layout marker, each with its break
ProseOf(text) ==
    JoinLines(SelectSeq(PreBoundaryLines(text),
                        LAMBDA l : ~Includes(l, LOG_MARKER) /\ ~Includes(l, LAYOUT_MARKER)))

LogsOf(text) ==
    LET logged == SelectSeq(PreBoundaryLines(text), LAMBDA l : Includes(l, LOG_MARKER))
    IN  [k \in 1..Len(logged) |-> Trim(ReplaceFirst(logged[k], LOG_MARKER))]

\* the scenario: a log line, a layout line, a line of prose, the boundary
\* line and the JSON line, joined by newlines
ScenarioText ==
    <<"[SWARM_", "LOG]", SP, "a", NL, "[LAYOUT:", SP, "SPATIAL_SPLIT]", NL,
      "b", NL, "[DATA_BOUNDARY]", NL, "{kv", "}">>

\* the streams whose latest update has been applied to their session
Applied == {i \in 1..Len(streams) : streams[i].n > 0 \/ streams[i].pc = "done"}

EndsInsideMarker(text) == text # <<>> /\ text[Len(text)] = LOG_MARKER[1]

\* C15: whatever the fragments were, a session's report and log lines are
\* the classification of the latest cumulative text alone, and a text that
\* ends inside a marker adds no log line and opens no payload section.
C15_FragmentationIndependent ==
    \A i \in Applied :
        LET h == Entry(state, streams[i].sid)
            text == streams[i].update.text
        IN  /\ h.answer = parseOutput(text).report
            /\ h.swarmLogs = parseOutput(text).logs
            /\ EndsInsideMarker(text)
               => /\ h.swarmLogs = parseOutput(SubSeq(text, 1, Len(text) - 1)).logs
                  /\ h.rawJson = Null
            /\ \A j \in Applied :
                  streams[j].update.text = text
                  => /\ Entry(state, streams[j].sid).answer = h.answer
                     /\ Entry(state, streams[j].sid).swarmLogs = h.swarmLogs

\* a log line that came in two fragments, the first ending inside the
\* marker, is one log line of the session and no part of its report
C15_Witness ==
    \E i \in Applied :
        /\ streams[i].n = 2
        /\ streams[i].update.text = <<"a", NL, "[SWARM_", "LOG]", SP, "a", NL, "a">>
        /\ Entry(state, streams[i].sid).swarmLogs = << <<"a">> >>
        /\ Entry(state, streams[i].sid).answer = <<"a", NL, "a">>

(***************************************************************************)
(* References.                                                             *)
(***************************************************************************)
\* C16: a session's references are exactly the references its latest
\* applied update carries; nothing of an earlier update's set is kept.
C16_ReferencesReplaced ==
    \A i \in Applied :
        Entry(state, streams[i].sid).chunks = streams[i].update.chunks

\* a second update with other references than the first has been applied
C16_Witness ==
    \E i \in Applied :
        /\ streams[i].n = 2
        /\ StartsWith(streams[i].fullText, <<"[SWARM_", "LOG]", "a", NL, "a", NL, "a", NL>>)
        /\ Entry(state, streams[i].sid).chunks = <<MapsChunk>>

(***************************************************************************)
(* Concurrent sessions (v11).                                              *)
(***************************************************************************)
\* the result displayed: history.find(h => h.id === selectedId)
Displayed(st, id) ==
    IF Find(st.history, id) = {} THEN Undefined ELSE Entry(st, id)

Abandoned(i) == streams[i].pc = "running" /\ selectedId # streams[i].sid

\* C18 as stated: no further update of an abandoned session is consumed or
\* applied and its committed state stays as it is.
C18_AbandonedNotConsumed ==
    [][\A i \in 1..Len(streams) :
          Abandoned(i) =>
              /\ streams'[i] = streams[i]
              /\ Entry(state', streams[i].sid) = Entry(state, streams[i].sid)]_vars

\* C18 amended: the step that abandons a session (the selection changes)
\* changes no committed entry and no stream; the abandoned session's stream
\* goes on, and each of its updates is applied to its entry.
C18_AbandonedKeepsStreaming ==
    [][/\ selectedId' # selectedId
          => /\ \A k \in 1..Len(state.history) :
                   Entry(state', state.history[k].id) = state.history[k]
             /\ \A i \in 1..Len(streams) : streams'[i] = streams[i]
       /\ \A i \in 1..Len(streams) :
             Abandoned(i) /\ Yields(i)
             => ShownV11(Entry(state', streams[i].sid)) = LeftBy(streams'[i])]_vars

\* "New Mission" is selected and the session left behind shows the second
\* update of its stream, which is still running
C18_Witness ==
    \E i \in 1..Len(streams) :
        /\ selectedId = "null"
        /\ Abandoned(i) /\ streams[i].n = 2
        /\ Entry(state, streams[i].sid).answer # <<>>
        /\ ShownV11(Entry(state, streams[i].sid)) = LeftBy(streams[i])

(***************************************************************************)
(* Completion (v11).                                                       *)
(***************************************************************************)
\* the provider's sequence of stream i ends normally in this step
Completes(i) == streams[i].pc = "running" /\ streams'[i].pc = "done"

\* C19: a non-final update leaves its session STREAMING, the final update
\* makes it COMPLETED, and a session is COMPLETED only when the final update
\* of its stream has been applied.
C19_CompletedExactlyAtFinal ==
    [][/\ \A i \in 1..Len(streams) :
             /\ Yields(i) => Entry(state', streams[i].sid).status = "streaming"
             /\ Completes(i)
                => /\ streams'[i].update.isComplete
                   /\ Entry(state', streams[i].sid).status = "completed"
       /\ \A i \in 1..Len(streams') :
             Entry(state', streams'[i].sid).status = "completed"
             <=> streams'[i].pc = "done"]_vars

\* one session is COMPLETED after an update and the final one, while
\* another is still STREAMING after its first update
C19_Witness ==
    \E i, j \in 1..Len(streams) :
        /\ streams[i].pc = "done" /\ streams[i].n = 1
        /\ Entry(state, streams[i].sid).status = "completed"
        /\ streams[j].pc = "running" /\ streams[j].n = 1
        /\ Entry(state, streams[j].sid).status = "streaming"

(***************************************************************************)
(* Malformed payload text (v11).                                           *)
(***************************************************************************)
\* the lines of the text after its first line with [DATA_BOUNDARY]
PostBoundaryLines(text) ==
    LET lines == Split(text, <<NL>>)
    IN  SubSeq(lines, Len(PreBoundaryLines(text)) + 2, Len(lines))

\* the trailing text as a whole is no JSON
Malformed(text) ==
    Includes(text, BOUNDARY_MARKER) /\ JSONparse(AfterBoundary(text)) = SyntaxError

\* the value of the last line after the boundary line that is JSON by itself
LastJsonLine(text) ==
    LET post == PostBoundaryLines(text)
        good == {k \in 1..Len(post) : JSONparse(post[k]) # SyntaxError}
    IN  IF good = {} THEN Null
        ELSE JSONparse(post[CHOOSE k \in good : \A j \in good : j <= k])

\* what every session shows whatever the trailing text is: the report and
\* the log lines of the text before the boundary line, no error, and
\* COMPLETED once its stream has ended
RecoveredLocally(i) ==
    LET h == Entry(state, streams[i].sid)
        before == parseOutput(JoinLines(PreBoundaryLines(streams[i].update.text)))
    IN  /\ h.rawJson # SyntaxError
        /\ h.answer = before.report
        /\ h.swarmLogs = before.logs
        /\ streams[i].pc = "done" => h.status = "completed"
        /\ (\A j \in 1..Len(streams) : streams[j].pc # "failed") => state.error = "null"

C22_EveryLineOneChannel ==
    parsed # NotParsed =>
        /\ parsed.v14.report = Trim(ProseOf(parsed.text))
        /\ parsed.v14.logs = LogsOf(parsed.text)
        /\ parsed.v11.report = Trim(ProseOf(parsed.text))
        /\ parsed.v11.logs = LogsOf(parsed.text)

(***************************************************************************)
(* Log entries.                                                            *)
(***************************************************************************)
\* the pre-boundary lines of the text that hold the log marker
LoggedLines(text) ==
    SelectSeq(PreBoundaryLines(text), LAMBDA l : Includes(l, LOG_MARKER))

BeforeMarker(line) == SubSeq(line, 1, IndexOf(line, LOG_MARKER) - 1)
AfterMarker(line) == SubSeq(line, IndexOf(line, LOG_MARKER) + Len(LOG_MARKER), Len(line))

Has(obj, field) == field \in DOMAIN obj

\* error.message?.includes(signature); an error may carry no message
Carries(error, signature) ==
    Has(error, "message") /\ Includes(error.message, <<signature>>)

\* { message, code, originalError: error.message }
Thrown(classified, error) ==
    IF Has(error, "message")
    THEN [message |-> classified.message, code |-> classified.code,
          originalError |-> error.message]
    ELSE [message |-> classified.message, code |-> classified.code]

\* the catch block of searchStream that tests the signatures in another order
searchStreamCatchAuthFirst(error) ==
    LET classified ==
            IF Carries(error, "apiKey")
            THEN [message |-> "Core authorization failed.", code |-> "AUTH_FAILURE"]
            ELSE IF Carries(error, "500") \/ Carries(error, "503")
            THEN [message |-> "Global intelligence node offline.",
                  code |-> "SERVICE_UNAVAILABLE"]
            ELSE IF Carries(error, "400")
            THEN [message |-> "Invalid parameters. Check query or file format.",
                  code |-> "BAD_REQUEST"]
            ELSE IF Carries(error, "429")
            THEN [message |-> "Engine rate-limited. The swarm is cooling down.",
                  code |-> "RATE_LIMIT_EXCEEDED"]
            ELSE [message |-> "Neural swarm disconnected.", code |-> "UNKNOWN_ERROR"]
    IN  Thrown(classified, error)

\* the catch block of searchStream: the value it throws
searchStreamCatch(error) ==
    LET classified ==
            IF Carries(error, "429")
            THEN [message |-> "Engine rate-limited. The swarm is cooling down.",
                  code |-> "RATE_LIMIT_EXCEEDED"]
            ELSE IF Carries(error, "400")
            THEN [message |-> "Invalid parameters. Check query or file format.",
                  code |-> "BAD_REQUEST"]
            ELSE IF Carries(error, "500") \/ Carries(error, "503")
            THEN [message |-> "Global intelligence node offline.",
                  code |-> "SERVICE_UNAVAILABLE"]
            ELSE IF Carries(error, "apiKey")
            THEN [message |-> "Core authorization failed.", code |-> "AUTH_FAILURE"]
            ELSE [message |-> "Neural swarm disconnected.", code |-> "UNKNOWN_ERROR"]
    IN  Thrown(classified, error)

\* geminiService.searchStream(query, options): the generator of the v4 service
searchStreamV4(searchId, q, options, initial, seen) ==
    [sid |-> searchId, pc |-> "running", fullText |-> <<>>, groundingChunks |-> <<>>,
     n |-> 0, update |-> [text |-> <<>>, chunks |-> <<>>, isComplete |-> FALSE],
     query |-> q, options |-> options, initial |-> initial, seen |-> seen,
     thrown |-> Null]

searchStreamV4Yield(g, chunk) ==
    LET fullText == g.fullText \o chunk.text
        groundingChunks == IF chunk.grounding.present
                           THEN chunk.grounding.chunks ELSE g.groundingChunks
    IN  [g EXCEPT !.fullText = fullText,
                  !.groundingChunks = groundingChunks,
                  !.n = @ + 1,
                  !.update = [text |-> fullText, chunks |-> groundingChunks,
                              isComplete |-> FALSE]]

searchStreamV4Final(g) ==
    [g EXCEPT !.pc = "done",
              !.update = [text |-> g.fullText, chunks |-> g.groundingChunks,
                          isComplete |-> TRUE]]

searchStreamV4Throw(g, error) ==
    [g EXCEPT !.pc = "failed", !.thrown = searchStreamCatch(error)]

\* an updater that files the result in history on every update
onUpdateV4Always(st, g) ==
    LET p == parseOrchestration(g.update.text, g.seen)
        updatedResult == [g.initial EXCEPT !.answer = p.report,
                                           !.rawJson = p.api,
                                           !.chunks = g.update.chunks]
    IN  [st EXCEPT !.currentResult = updatedResult,
                   !.history = <<updatedResult>> \o
                               SelectSeq(st.history, LAMBDA h : h.id # g.sid)]

\* the setState updater of the for-await body
onUpdateV4(st, g) ==
    LET p == parseOrchestration(g.update.text, g.seen)
        updatedResult == [g.initial EXCEPT !.answer = p.report,
                                           !.rawJson = p.api,
                                           !.chunks = g.update.chunks]
    IN  [st EXCEPT !.currentResult = updatedResult,
                   !.history = IF g.update.isComplete
                               THEN <<updatedResult>> \o
                                    SelectSeq(st.history, LAMBDA h : h.id # g.sid)
                               ELSE st.history]

\* the catch block of handleSearch: state and diagnostic.  The message of
\* the diagnostic is a text: the original message, or the thrown one as a
\* text of one symbol
onCatchV4(st, err) ==
    [st EXCEPT !.isSearching = FALSE,
               !.error = IF Has(err, "message") /\ err.message # ""
                         THEN err.message ELSE "Neural swarm failed."]

diagnosticOf(err) ==
    [message |-> IF Has(err, "originalError") /\ err.originalError # <<>>
                 THEN err.originalError ELSE <<err.message>>,
     code |-> IF Has(err, "code") /\ err.code # "" THEN err.code ELSE "SWARM_ERROR"]

initialResultV4(searchId, activeQuery, filePayload) ==
    [id |-> searchId,
     query |-> IF activeQuery # <<>> THEN activeQuery
               ELSE IF filePayload # Null THEN <<"Analysis of ", filePayload.name>>
               ELSE <<"Multimodal Extraction">>,
     answer |-> <<>>, chunks |-> <<>>,
     fileContext |-> IF filePayload = Null THEN Undefined ELSE filePayload]

DefaultPrompt ==
    <<"Extract all data and synthesize key findings from the provided document.">>

\* handleSearch(e, customQuery, customFile); args holds the arguments given
handleSearchV4App(args) ==
    LET activeQuery == IF Has(args, "customQuery") /\ args.customQuery # <<>>
                       THEN args.customQuery ELSE query
        filePayload == IF Has(args, "customFile") THEN args.customFile ELSE selectedFile
        searchId == SessionIds[Len(streams) + 1]
        initial == initialResultV4(searchId, activeQuery, filePayload)
        options == [model |-> ui.modelType, deepSearch |-> ui.deepSearch,
                    useMaps |-> ui.useMaps,
                    fileContext |-> IF filePayload = Null THEN Undefined ELSE filePayload]
    IN  /\ ~(Trim(activeQuery) = <<>> /\ filePayload = Null)
        /\ Len(streams) < MaxStreams
        /\ agentStatus' = [IdleStatus EXCEPT !.architect = "active"]
        /\ ui' = [ui EXCEPT !.diagnostic = Null,
                            !.lastRequest = [query |-> activeQuery, file |-> filePayload,
                                             useMaps |-> ui.useMaps]]
        /\ state' = [state EXCEPT !.isSearching = TRUE, !.error = "null",
                                  !.currentResult = initial]
        /\ query' = <<>>
        /\ selectedFile' = Null
        /\ streams' = Append(streams,
              searchStreamV4(searchId,
                             IF activeQuery = <<>> THEN DefaultPrompt ELSE activeQuery,
                             options, initial, agentStatus))

\* the form: its input and its button are disabled while a search runs
onSubmitV4 ==
    /\ ~state.isSearching
    /\ handleSearchV4App([e |-> "submit"])

\* the Retry button of the error panel
handleRetry ==
    /\ state.error # "null"
    /\ ui.lastRequest # Null
    /\ handleSearchV4App([customQuery |-> ui.lastRequest.query,
                          customFile |-> ui.lastRequest.file])

\* the Flash / Pro buttons and Maps Grounding (Swarm Strength, which sets
\* deepSearch the way Maps Grounding sets useMaps, is left at its initial value)
setModelType(m) ==
    /\ m # ui.modelType
    /\ ui' = [ui EXCEPT !.modelType = m]
    /\ UNCHANGED <<state, query, selectedFile, streams, agentStatus>>

setUseMaps ==
    /\ ui' = [ui EXCEPT !.useMaps = ~@]
    /\ UNCHANGED <<state, query, selectedFile, streams, agentStatus>>

\* an entry of the history list
selectResult(k) ==
    /\ state.currentResult # state.history[k] \/ state.error # "null"
    /\ state' = [state EXCEPT !.currentResult = state.history[k], !.error = "null"]
    /\ UNCHANGED <<ui, query, selectedFile, streams, agentStatus>>

\* onChange of the input box
setQueryV4(q) ==
    /\ q # query
    /\ query' = q
    /\ UNCHANGED <<state, ui, selectedFile, streams, agentStatus>>

\* the provider delivers a chunk, searchStream yields, the loop body runs
UpdateV4(i, chunk) ==
    /\ streams[i].pc = "running"
    /\ TotalChunks < MaxChunks
    /\ LET g == searchStreamV4Yield(streams[i], chunk)
       IN  /\ streams' = [streams EXCEPT ![i] = g]
           /\ agentStatus' = parseOrchestration(g.update.text, g.seen).status
           /\ state' = onUpdateV4(state, g)
    /\ UNCHANGED <<ui, query, selectedFile>>

\* the provider's stream ends: the isComplete update, then the loop ends
FinalV4(i) ==
    /\ streams[i].pc = "running"
    /\ LET g == searchStreamV4Final(streams[i])
       IN  /\ streams' = [streams EXCEPT ![i] = g]
           /\ agentStatus' = parseOrchestration(g.update.text, g.seen).status
           /\ state' = [onUpdateV4(state, g) EXCEPT !.isSearching = FALSE]
    /\ UNCHANGED <<ui, query, selectedFile>>

\* the provider throws, searchStream classifies and throws, catch
FailV4(i, error) ==
    /\ streams[i].pc = "running"
    /\ LET g == searchStreamV4Throw(streams[i], error)
       IN  /\ streams' = [streams EXCEPT ![i] = g]
           /\ state' = onCatchV4(state, g.thrown)
           /\ ui' = [ui EXCEPT !.diagnostic = diagnosticOf(g.thrown)]
    /\ UNCHANGED <<agentStatus, query, selectedFile>>

ProviderErrors ==
    {[message |-> <<"429">>], [message |-> <<"x", "400">>], [message |-> <<"500">>],
     [message |-> <<"503", "x">>], [message |-> <<"apiKey">>],
     [message |-> <<"apiKey", "503", "400", "429">>], [message |-> <<"apiKey", "400">>],
     [message |-> <<"x">>], [message |-> <<>>], [name |-> "Error"]}

RepertoireV4 ==
    [symbols |-> {},
     chunks |-> {Chunk(<<"[ARCHITECT]", "a", "[DATA_BOUNDARY]", "{kv", "}">>,
                       Grounding(<<WebChunk>>), <<>>)},
     queries |-> {<<>>, <<"a">>},
     files |-> {Null},
     errors |-> {[message |-> <<"503", "x">>]}]

\* v4 with a provider that fails in every way
RepertoireErrors ==
    [symbols |-> {},
     chunks |-> {Chunk(<<"[ARCHITECT]", "a">>, Grounding(<<WebChunk>>), <<>>)},
     queries |-> {<<>>, <<"a">>},
     files |-> {Null},
     errors |-> ProviderErrors]

NoSearchV4 ==
    /\ ClassifierIdle
    /\ state = [isSearching |-> FALSE, currentResult |-> Null, history |-> <<>>,
                error |-> "null"]
    /\ selectedId = "null"
    /\ query = <<>>
    /\ selectedFile = Null
    /\ agentStatuses = <<>>
    /\ streams = <<>>
    /\ ui = InitialUi

InitV4 == repertoire = RepertoireV4 /\ NoSearchV4

InitErrors == repertoire = RepertoireErrors /\ NoSearchV4

v4Frame == <<buffer, parsed, closure, selectedId, agentStatuses, repertoire>>

NextV4 ==
    \/ \E q \in repertoire.queries : setQueryV4(q) /\ UNCHANGED v4Frame
    \/ \E m \in {"gemini-3-flash-preview", "gemini-3-pro-preview"} :
          setModelType(m) /\ UNCHANGED v4Frame
    \/ setUseMaps /\ UNCHANGED v4Frame
    \/ onSubmitV4 /\ UNCHANGED v4Frame
    \/ handleRetry /\ UNCHANGED v4Frame
    \/ \E k \in 1..Len(state.history) : selectResult(k) /\ UNCHANGED v4Frame
    \/ \E i \in 1..Len(streams) : \E chunk \in ProviderChunks :
          UpdateV4(i, chunk) /\ UNCHANGED v4Frame
    \/ \E i \in 1..Len(streams) : FinalV4(i) /\ UNCHANGED v4Frame
    \/ \E i \in 1..Len(streams) : \E error \in repertoire.errors :
          FailV4(i, error) /\ UNCHANGED v4Frame

SpecV4 == InitV4 /\ [][NextV4]_vars

\* v4 without the toggles and the history list
NextErrors ==
    \/ \E q \in repertoire.queries : setQueryV4(q) /\ UNCHANGED v4Frame
    \/ onSubmitV4 /\ UNCHANGED v4Frame
    \/ handleRetry /\ UNCHANGED v4Frame
    \/ \E i \in 1..Len(streams) : \E chunk \in ProviderChunks :
          UpdateV4(i, chunk) /\ UNCHANGED v4Frame
    \/ \E i \in 1..Len(streams) : FinalV4(i) /\ UNCHANGED v4Frame
    \/ \E i \in 1..Len(streams) : \E error \in repertoire.errors :
          FailV4(i, error) /\ UNCHANGED v4Frame

SpecErrors == InitErrors /\ [][NextErrors]_vars

(***************************************************************************)
(* C24: a failure of the provider reaches the session under exactly one    *)
(* failure category with that category's message: the first of rate limit, *)
(* bad request, service unavailable and auth failure whose signature the    *)
(* error carries, the generic category when it carries none.               *)
(***************************************************************************)
CategoryMessages ==
    {"Engine rate-limited. The swarm is cooling down.",
     "Invalid parameters. Check query or file format.",
     "Global intelligence node offline.",
     "Core authorization failed.",
     "Neural swarm disconnected."}

\* C24: the error a session shows is the message of a failure category
C24_FailureIsCategorised ==
    state.error = "null" \/ state.error \in CategoryMessages

\* the category the claim gives to a provider error
CategoryOf(error) ==
    IF Carries(error, "429") THEN "RATE_LIMIT_EXCEEDED"
    ELSE IF Carries(error, "400") THEN "BAD_REQUEST"
    ELSE IF Carries(error, "500") \/ Carries(error, "503") THEN "SERVICE_UNAVAILABLE"
    ELSE IF Carries(error, "apiKey") THEN "AUTH_FAILURE"
    ELSE "UNKNOWN_ERROR"

\* C24, the service of geminiService.ts lines 1-127: the diagnostic of a
\* failed search carries the category of the provider's error, and a
\* generator that threw yields nothing more
C24_V4CategoryMatchesSignature ==
    [][\A i \in 1..Len(streams) : \A error \in repertoire.errors :
          /\ (FailV4(i, error) => /\ ui'.diagnostic.code = CategoryOf(error)
                                  /\ state'.error \in CategoryMessages
                                  /\ ~state'.isSearching)
          /\ (streams[i].pc = "failed" => streams'[i] = streams[i])]_vars

\* a search failed on an error that carries three signatures, the rate
\* limit among them, and is shown as rate-limited
C24_V4Witness ==
    \E i \in 1..Len(streams) :
        /\ streams[i].pc = "failed"
        /\ Has(streams[i].thrown, "originalError")
        /\ streams[i].thrown.originalError = <<"apiKey", "503", "400", "429">>
        /\ streams[i].thrown.code = "RATE_LIMIT_EXCEEDED"
        /\ state.error = "Engine rate-limited. The swarm is cooling down."

(***************************************************************************)
(* C25: Retry repeats the failed request.                                  *)
(***************************************************************************)
\* the generator that Retry starts, and the one that failed before it
Retried == streams'[Len(streams')]
FailedRequest == streams[Len(streams)]

\* Retry starts a generator from scratch under an id no search had
StartsAfresh ==
    /\ Len(streams') = Len(streams) + 1
    /\ \A i \in 1..Len(streams) : streams'[i] = streams[i] /\ streams[i].sid # Retried.sid
    /\ Retried.pc = "running" /\ Retried.n = 0 /\ Retried.fullText = <<>>
    /\ state'.currentResult.id = Retried.sid
    /\ state'.currentResult.answer = <<>>

\* C25: a Retry step starts a new provider call, from scratch and under a new
\* id, with the query, the file and the configuration of the request that
\* failed, whatever the input box and the toggles hold by then
C25_RetryRepeatsRequest ==
    [][handleRetry =>
          /\ FailedRequest.pc = "failed"
          /\ StartsAfresh
          /\ Retried.query = FailedRequest.query
          /\ Retried.options = FailedRequest.options]_vars

\* what Retry does repeat: the query and the file; the configuration is the
\* one the toggles show when Retry is pressed
C25_RetryRepeatsQueryAndFile ==
    [][handleRetry =>
          /\ FailedRequest.pc = "failed"
          /\ StartsAfresh
          /\ Retried.query = FailedRequest.query
          /\ Retried.options.fileContext = FailedRequest.options.fileContext
          /\ Retried.options.model = ui.modelType
          /\ Retried.options.useMaps = ui.useMaps]_vars

\* a retried search runs with Maps grounding although the failed request,
\* as lastRequest recorded it, ran without, and the input box holds other text
C25_RetryWitness ==
    /\ Len(streams) = 2
    /\ streams[1].pc = "failed" /\ streams[2].pc = "running"
    /\ streams[2].query = streams[1].query
    /\ ~streams[1].options.useMaps /\ streams[2].options.useMaps
    /\ streams[2].options.model # streams[1].options.model

(***************************************************************************)
(* C26: the updates one run of searchStream yields.                        *)
(***************************************************************************)
\* stream i yields its isComplete update in this step
YieldsFinal(i) == streams[i].pc = "running" /\ streams'[i].pc = "done"

\* C26: every update a generator yields extends the text of the one before;
\* the isComplete update comes once, as the last one, with the text and the
\* references of the update before it; a generator that threw has yielded
\* no isComplete update; a generator that returned or threw yields no more
C26_UpdatesCumulativeOneFinal ==
    [][\A i \in 1..Len(streams) :
          /\ StartsWith(streams'[i].update.text, streams[i].update.text)
          /\ (Yields(i) => /\ ~streams'[i].update.isComplete
                           /\ streams'[i].pc = "running")
          /\ (YieldsFinal(i) =>
                /\ streams'[i].update.isComplete
                /\ ~streams[i].update.isComplete
                /\ streams'[i].update.text = streams[i].update.text
                /\ streams'[i].update.chunks = streams[i].update.chunks)
          /\ (streams'[i].update.isComplete => streams'[i].pc = "done")
          /\ (streams[i].pc # "running" => streams'[i] = streams[i])]_vars

\* a generator returned after two chunks, the second without references of
\* its own: its last update is the isComplete one, with the whole text and
\* the references of the first chunk
C26_Witness ==
    \E i \in 1..Len(streams) :
        /\ streams[i].pc = "done" /\ streams[i].n = 2
        /\ streams[i].update.isComplete
        /\ streams[i].update.text =
              <<"[SWARM_", "LOG]", "a", NL, "a", NL, "[DATA_BOUNDARY]", NL, "{kv", "}">>
        /\ streams[i].update.chunks = <<WebChunk>>

(***************************************************************************)
(* C27: the task mutations of a session take effect in the order received. *)
(***************************************************************************)
TaskIdsOrder == {"t1"}

\* the tasks with id t that session sid owns
TasksOf(tasks, sid, t) == SelectSeq(tasks, LAMBDA x : x.id = t /\ x.searchId = sid)

\* the positions in calls of the mutations of task t
CallsOn(calls, t) == {k \in 1..Len(calls) : calls[k].args.taskId = t}

LastOf(ks) == CHOOSE k \in ks : \A j \in ks : j <= k

\* task t of the session exists right before call k of the update is applied
\* if the call before it on t created it or, failing that, updated a task
\* that existed; with no earlier call, if the session held it already
RECURSIVE ExistsBefore(_, _, _, _, _)
ExistsBefore(tasks, sid, calls, t, k) ==
    LET earlier == {j \in CallsOn(calls, t) : j < k}
    IN  IF earlier = {} THEN TasksOf(tasks, sid, t) # <<>>
        ELSE LET j == LastOf(earlier)
             IN  IF calls[j].args.action = "create" THEN TRUE
                 ELSE IF calls[j].args.action = "delete" THEN FALSE
                 ELSE ExistsBefore(tasks, sid, calls, t, j)

PositionsOf(tasks, sid, t) ==
    {j \in 1..Len(tasks) : tasks[j].id = t /\ tasks[j].searchId = sid}

\* an argument the call gives; an empty string counts as not given
Given(x) == ~Falsy(x)

\* the effect the claim gives to one call on the tasks  before
FrameOf(before, after, a, sid) ==
    LET pos == PositionsOf(before, sid, a.taskId)
    IN  /\ (a.action = "create" /\ pos = {}) =>
              after = Append(before,
                        [id |-> a.taskId, searchId |-> sid,
                         status |-> IF Given(a.status) THEN a.status ELSE "pending",
                         description |-> IF Given(a.description) THEN a.description ELSE ""])
        /\ (a.action = "update" /\ pos # {}) =>
              /\ Len(after) = Len(before)
              /\ \A j \in 1..Len(before) :
                    IF j \in pos
                    THEN /\ after[j].id = before[j].id
                         /\ after[j].searchId = before[j].searchId
                         /\ after[j].status =
                              IF Given(a.status) THEN a.status ELSE before[j].status
                         /\ after[j].description =
                              IF Given(a.description) THEN a.description
                              ELSE before[j].description
                    ELSE after[j] = before[j]
        /\ a.action = "delete" =>
              /\ after = SelectSeq(before, LAMBDA x : ~(x.id = a.taskId /\ x.searchId = sid))
              /\ Len(after) = Len(before) - (IF pos = {} THEN 0 ELSE 1)
        /\ Cardinality(pos) <= 1

\* C28: each call of an update, applied to the tasks the calls before it
\* left, appends one task of its session (create of an unused id), rewrites
\* in place the given fields of one task of its session (update of an
\* existing id) or removes that one task (delete), and changes no other
\* task and nothing else of the state
C28_MutationFrame ==
    [][\A i \in 1..Len(streams) : Yields(i) =>
          LET sid == streams[i].sid
              calls == streams'[i].update.functionCalls
          IN  /\ \A k \in 1..Len(calls) :
                    LET st == forEachTaskAction(state, SubSeq(calls, 1, k - 1), sid)
                        next == handleTaskAction(st, calls[k], sid)
                    IN  /\ FrameOf(st.tasks, next.tasks, calls[k].args, sid)
                        /\ next = [st EXCEPT !.tasks = next.tasks]
              /\ state'.tasks = forEachTaskAction(state, calls, sid).tasks]_vars

\* session s2 updated and deleted its task t2 and created its t1 while
\* session s1 holds t1 and t2 as its own update left them
C28_Witness ==
    /\ Len(streams) = 2 /\ streams[1].n = 1 /\ streams[2].n = 1
    /\ state.tasks = <<[id |-> "t1", searchId |-> streams[1].sid,
                        status |-> "completed", description |-> "d1"],
                       [id |-> "t2", searchId |-> streams[1].sid,
                        status |-> "in_progress", description |-> ""],
                       [id |-> "t1", searchId |-> streams[2].sid,
                        status |-> "pending", description |-> ""]>>

(***************************************************************************)
(* C29: activeNodeIds and the streams being consumed.                      *)
(***************************************************************************)
ActiveIds == {state.activeNodeIds[k] : k \in 1..Len(state.activeNodeIds)}

\* C29: activeNodeIds holds a session id exactly while a stream of that
\* session is being consumed, also when two streams of one session overlap
C29_ActiveWhileConsumed ==
    \A k \in 1..Len(SessionIds) : SessionIds[k] \in ActiveIds <=> Consumed(SessionIds[k])

\* the same for the sessions of which at most one stream was ever started
C29_ActiveWhileConsumedOnce ==
    \A k \in 1..Len(SessionIds) :
        Cardinality({i \in 1..Len(streams) : streams[i].sid = SessionIds[k]}) <= 1 =>
            (SessionIds[k] \in ActiveIds <=> Consumed(SessionIds[k]))

\* a follow-up stream is being consumed after the first stream of its session
\* ended
C29_OverlapWitness ==
    \E i, j \in 1..Len(streams) :
        /\ i < j /\ streams[i].sid = streams[j].sid
        /\ streams[i].pc = "done" /\ streams[j].pc = "running"
        /\ streams[i].sid \notin ActiveIds

(***************************************************************************)
(* C30: the conversation turns a follow-up hands to the provider.          *)
(***************************************************************************)
\* the step submits a follow-up on the selected session
FollowUpStep == Len(streams') = Len(streams) + 1 /\ selectedId # "null"

\* the submissions made on session sid so far
SubmissionsOn(sid) == {i \in 1..Len(streams) : streams[i].sid = sid}

\* C30: the turns of a follow-up start with the session's first query as a
\* user turn and hold one user turn for each earlier submission on the
\* session, each followed by a model turn
C30_TurnsHoldConversation ==
    [][FollowUpStep =>
          LET g == streams'[Len(streams')]
              earlier == Cardinality(SubmissionsOn(g.sid))
          IN  /\ Len(g.turns) = 2 * earlier
              /\ g.turns[1] = [role |-> "user", content |-> Entry(state, g.sid).query]
              /\ \A k \in 1..Len(g.turns) :
                    g.turns[k].role = IF k % 2 = 1 THEN "user" ELSE "model"]_vars

\* the first follow-up of a session was handed one turn: the answer
C30_FirstFollowUpWitness ==
    \E i, j \in 1..Len(streams) :
        /\ i < j /\ streams[i].sid = streams[j].sid
        /\ streams[i].n > 0
        /\ Len(streams[j].turns) = 1
        /\ streams[j].turns[1].role = "model"
        /\ streams[j].turns[1].content # <<>>

(***************************************************************************)
(* C31: the status button of the task board.                               *)
(***************************************************************************)
\* C31: toggling task id on the board of the selected session flips the
\* status of that session's task id and leaves every other task, the tasks
\* with the same id of other sessions among them, as it was
C31_ToggleOnlySelected ==
    [][\A id \in {"t1", "t2"} : onToggleStatus(id) =>
          /\ Len(state'.tasks) = Len(state.tasks)
          /\ \A k \in 1..Len(state.tasks) :
                IF state.tasks[k].id = id /\ state.tasks[k].searchId = selectedId
                THEN state'.tasks[k].status # state.tasks[k].status
                ELSE state'.tasks[k] = state.tasks[k]]_vars

\* the same for the tasks with another id
C31_ToggleKeepsOtherIds ==
    [][\A id \in {"t1", "t2"} : onToggleStatus(id) =>
          /\ Len(state'.tasks) = Len(state.tasks)
          /\ \A k \in 1..Len(state.tasks) :
                IF state.tasks[k].id = id
                THEN /\ state'.tasks[k] = [state.tasks[k] EXCEPT !.status = state'.tasks[k].status]
                     /\ state'.tasks[k].status # state.tasks[k].status
                ELSE state'.tasks[k] = state.tasks[k]]_vars

EntriesOf(sid) == Len(SelectSeq(state.history, LAMBDA h : h.id = sid))

\* C33: history holds exactly one entry for each search whose final update
\* was applied and none for a search that is still streaming or whose
\* provider failed; isSearching is true exactly while a stream is consumed
C33_HistoryHoldsCompletedOnly ==
    /\ \A i \in 1..Len(streams) :
          EntriesOf(streams[i].sid) = IF streams[i].pc = "done" THEN 1 ELSE 0
    /\ Len(state.history) = Cardinality({i \in 1..Len(streams) : streams[i].pc = "done"})
    /\ state.isSearching <=> \E i \in 1..Len(streams) : streams[i].pc = "running"

\* a search failed after its first update, its retry completed: history
\* holds the retry only and nothing is searching
C33_Witness ==
    /\ Len(streams) = 2
    /\ streams[1].pc = "failed" /\ streams[1].n = 1
    /\ streams[2].pc = "done" /\ streams[2].n = 1
    /\ Len(state.history) = 1 /\ state.history[1].id = streams[2].sid
    /\ state.history[1].answer # <<>>
    /\ ~state.isSearching

(***************************************************************************)
(* C34: the suggested queries of the empty screen.                         *)
(***************************************************************************)
\* C34: a click on a suggestion starts a search for it: a stream is started
\* and the new session, selected and first in history, has the suggestion
\* as its query
C34_SuggestionStartsSearch ==
    [][\A s \in Suggestions : onSuggestion(s) =>
          /\ Len(streams') = Len(streams) + 1
          /\ Len(state'.history) = Len(state.history) + 1
          /\ state'.history[1].query = s
          /\ state'.history[1].id = streams'[Len(streams')].sid
          /\ selectedId' = state'.history[1].id]_vars

\* what a click does: with an empty input box it only fills the box; with
\* text in the box it starts a search for that text
C34_SuggestionUsesInputBox ==
    [][\A s \in Suggestions : onSuggestion(s) =>
          IF Trim(query) = <<>>
          THEN query' = s /\ streams' = streams /\ state' = state
          ELSE /\ Len(streams') = Len(streams) + 1
               /\ state'.history[1].query = Trim(query)
               /\ query' = <<>>]_vars

\* the input box holds a suggestion and no search was ever started
C34_ClickedWitness ==
    query \in Suggestions /\ streams = <<>> /\ state.history = <<>>

(***************************************************************************)
(* C35: handleSearch with nothing to search for.                           *)
(***************************************************************************)
Blank == Trim(query) = <<>> /\ selectedFile = Null

\* C35: while the input box is blank and no file is attached no step starts
\* a stream, and a step that moves no stream (handleSearch among them)
\* leaves history, tasks, activeNodeIds, the error and the selected session
\* as they are
C35_BlankSubmitsNothing ==
    [][Blank =>
          /\ Len(streams') = Len(streams)
          /\ streams' = streams => state' = state /\ selectedId' = selectedId]_vars

\* the input box holds white space only while a session streams and another
\* search could be started
C35_Witness ==
    /\ query = <<SP, NL>> /\ selectedFile = Null
    /\ Len(streams) = 1 /\ Len(streams) < MaxStreams
    /\ streams[1].pc = "running" /\ streams[1].n = 1
    /\ state.tasks # <<>> /\ selectedId = streams[1].sid

\* C35 (part_002 1238-1242): every search the orchestrator starts, by the
\* form or by Retry, has a query that is not blank or a file
C35_V4StartsNeedInput ==
    [][Len(streams') > Len(streams) =>
          /\ ~(Trim(query) = <<>> /\ selectedFile = Null) \/ handleRetry
          /\ Trim(ui'.lastRequest.query) # <<>> \/ ui'.lastRequest.file # Null]_vars

(***************************************************************************)
(* C36: the layout of the selected session.                                *)
(***************************************************************************)
HasMapReference(result) == \E k \in 1..Len(result.chunks) : result.chunks[k].kind = "maps"

\* C36: with a session selected the active layout is never AUTO: it is the
\* session's suggested layout when that is a layout other than AUTO, and
\* otherwise SPATIAL_SPLIT with a map reference and REPORT_ONLY without one
C36_ActiveLayoutNeverAuto ==
    currentResult # Null =>
        /\ activeLayout \in LayoutMode \ {"AUTO"}
        /\ IF currentResult.suggestedLayout \in LayoutMode \ {"AUTO"}
           THEN activeLayout = currentResult.suggestedLayout
           ELSE activeLayout = IF HasMapReference(currentResult)
                               THEN "SPATIAL_SPLIT" ELSE "REPORT_ONLY"

\* a selected session that suggests DATA_FOCUS and has a map reference
C36_SuggestedWinsOverMapWitness ==
    /\ currentResult # Null
    /\ currentResult.suggestedLayout = "DATA_FOCUS"
    /\ HasMapReference(currentResult)
    /\ activeLayout = "DATA_FOCUS"

\* the predicted SPATIAL_SPLIT of a session without any reference wins over
\* the REPORT_ONLY the references would give
C36_SuggestedWinsWitness ==
    /\ currentResult # Null
    /\ currentResult.suggestedLayout = "SPATIAL_SPLIT"
    /\ ~HasMapReference(currentResult)
    /\ activeLayout = "SPATIAL_SPLIT"

\* a selected session that suggests AUTO and has a map reference
C36_AutoWithMapWitness ==
    /\ currentResult # Null
    /\ currentResult.suggestedLayout = "AUTO"
    /\ HasMapReference(currentResult)
    /\ activeLayout = "SPATIAL_SPLIT"

\* a selected session whose suggestion is absent after an update
C36_AbsentWitness ==
    /\ currentResult # Null
    /\ currentResult.suggestedLayout = "undefined"
    /\ activeLayout = "REPORT_ONLY"

(***************************************************************************)
(* C37: the phase statuses keep the pipeline order.                        *)
(***************************************************************************)
PhaseOrder == <<"architect", "researcher", "analyst", "auditor">>

ActivePhases(status) == {k \in 1..Len(PhaseOrder) : status[PhaseOrder[k]] = "active"}

OneActiveInOrder(status) ==
    /\ Cardinality(ActivePhases(status)) <= 1
    /\ \A k \in ActivePhases(status) : \A j \in 1..(k - 1) : status[PhaseOrder[j]] = "complete"

\* a step of the search that is running: no new search starts
SameSearch == ~(buffer # <<>> /\ buffer' = <<>>)

CompleteStays ==
    \A k \in 1..Len(PhaseOrder) :
        agentStatus[PhaseOrder[k]] = "complete" => agentStatus'[PhaseOrder[k]] = "complete"

\* C37: during a search at most one phase is active, every phase before the
\* active one is complete, and a complete phase stays complete
C37_PhasesKeepPipelineOrder ==
    [][SameSearch => OneActiveInOrder(agentStatus') /\ CompleteStays]_vars

\* C37, first and second part alone
C37_OneActiveInOrder == OneActiveInOrder(agentStatus)

\* C37, third part alone
C37_CompleteStays == [][SameSearch => CompleteStays]_vars

\* C37 for the search that starts from the initial statuses
C37_FirstSearchKeepsOrder ==
    [][SameSearch /\ closure = IdleStatus =>
          OneActiveInOrder(agentStatus') /\ CompleteStays]_vars

\* C37 (part_002 225-229): at most one phase of the v7 statuses is active
C37_V7OneActive ==
    parsed # NotParsed =>
        Cardinality({n \in DOMAIN parsed.v7.status : parsed.v7.status[n] = "active"}) <= 1

====
